---- MODULE Spec2Model ----
(***************************************************************************)
(* Model of the disaster-analysis pipeline: the FastAPI entry point        *)
(* (main.py), the LangGraph workflow and its nodes (langraph.py), the      *)
(* prompt parser (inputparser_agent.py), the Snowflake retrieval agent     *)
(* (dataretrieve.py), the statistics analyzer (statistical.py), the        *)
(* forecast generator (forecasting.py) and the report agent (report.py).   *)
(*                                                                         *)
(* Representation of Python values:                                        *)
(*   - None is the record [kind |-> "None"];                               *)
(*   - a str is [kind |-> "str", v |-> <<parts>>]: the sequence of the     *)
(*     pieces an f-string or a concatenation is built from, a prompt being *)
(*     the sequence of its whitespace-separated words;                     *)
(*   - an int is [kind |-> "int", v |-> n];                                *)
(*   - a dict is [kind |-> "dict", v |-> f], f a function whose DOMAIN is  *)
(*     the set of keys present;                                            *)
(*   - a DataFrame is [kind |-> "df", rows |-> <<...>>];                   *)
(*   - the workflow state (AgentState) is a function from the keys that    *)
(*     have been written to their values, so that `"k" in state` is        *)
(*     "k" \in DOMAIN state.                                               *)
(* A numeric NULL/NaN cell of the table is NaN, a NULL text cell is NULL.  *)
(***************************************************************************)
EXTENDS Integers, Sequences, FiniteSets, TLC

VARIABLES
    request,    \* the AnalysisRequest received by analyze_disaster
    store,      \* rows of DISASTER_TABLE (unchanged during a run)
    state,      \* the AgentState threaded through the workflow
    pc,         \* position: "begin", a node name, "END", "raised", "replied"
    executed,   \* sequence of the node names that have run
    calls,      \* sequence of the collaborator calls made so far
    raised,     \* the exception that escaped a node (None if none did)
    response,   \* what analyze_disaster answered (None before it answers)
    earlier     \* the request the service answered before, with its outcome
                \* (None while the first request is served)

vars == <<request, store, state, pc, executed, calls, raised, response, earlier>>

(***************************************************************************)
(* Bounds of the model                                                     *)
(***************************************************************************)
MaxPromptLen == 3
\* the longest prompt of the specifications that follow a request further
\* than one run of the workflow (fairness, a second run)
ShortPromptLen == 2
\* the largest count or total of a summary built by hand
MaxCount == 2
\* the largest row cap of a query made outside the workflow
MaxLimit == 3

(***************************************************************************)
(* Python values                                                           *)
(***************************************************************************)
None == [kind |-> "None"]
Str(parts) == [kind |-> "str", v |-> parts]
IntV(n) == [kind |-> "int", v |-> n]
Dict(f) == [kind |-> "dict", v |-> f]
DataFrame(rows) == [kind |-> "df", rows |-> rows]

NaN == -1
NULL == "NULL"

\* Python truthiness: bool(v)
Truthy(v) ==
    CASE v.kind = "None" -> FALSE
      [] v.kind = "str" -> v.v # <<>>
      [] v.kind = "int" -> v.v # 0
      [] v.kind = "dict" -> DOMAIN v.v # {}
      [] OTHER -> TRUE

\* a local variable: value is computed once and Body is evaluated with it
Bind(value, Body(_)) == CHOOSE r \in {Body(v) : v \in {value}} : TRUE

\* {**d, **upd}
Merge(d, upd) ==
    Bind(<<d, upd>>,
         LAMBDA both :
             [k \in DOMAIN both[1] \cup DOMAIN both[2] |->
                 IF k \in DOMAIN both[2] THEN both[2][k] ELSE both[1][k]])

\* d.get(k): None when the key is absent
Get(d, k) == IF k \in DOMAIN d THEN d[k] ELSE None

\* str.lower() of one word
Lower(w) ==
    CASE w = "Flood" -> "flood"
      [] w = "Storm" -> "storm"
      [] w = "Brazil" -> "brazil"
      [] w = "Mexico" -> "mexico"
      [] w = "Mass movement (wet)" -> "mass movement (wet)"
      [] w = "Analyze" -> "analyze"
      [] w = "TOTAL_AFFECTED" -> "total_affected"
      [] w = "TOTAL_DEATHS" -> "total_deaths"
      [] OTHER -> w

\* str.title() of one word
TitleWord(w) ==
    CASE w = "flood" -> "Flood"
      [] w = "storm" -> "Storm"
      [] w = "brazil" -> "Brazil"
      [] w = "mexico" -> "Mexico"
      [] OTHER -> w

\* s.title()
Title(s) == Str([i \in DOMAIN s.v |-> TitleWord(s.v[i])])

\* str(n) for the integers that are rendered
IntToStr(n) ==
    CASE n = 2015 -> "2015"
      [] n = 2027 -> "2027"
      [] OTHER -> "int"

(***************************************************************************)
(* inputparser_agent.py                                                    *)
(***************************************************************************)
\* the single-word terms of the vocabulary that occur in the table below
DISASTER_TYPES == {"flood", "storm", "mass movement (wet)"}
COUNTRIES == {"brazil", "mexico"}
VALID_YEARS == 2000..2025

\* words a prompt is made of
Words == {"Flood", "storm", "Brazil", "2015", "2027"}

\* words matched by \b(20[0-2][0-9])\b, with their integer value
YearWords == {"2015", "2027"}
YearOf(w) == IF w = "2015" THEN 2015 ELSE 2027

\* re.sub(r'\s+', ' ', prompt.lower()).strip()
Normalize(p) == [i \in DOMAIN p |-> Lower(p[i])]

\* the terms of the vocabulary whose last character is not a word character
EndsOutsideWord == {"mass movement (wet)"}

\* a term directly followed by a letter
Glued(t) == IF t = "mass movement (wet)" THEN "mass movement (wet)s" ELSE t

\* re.search(r'\b' + re.escape(t) + r'\b', w) on the stretch w of the
\* prompt between two spaces: the closing \b wants a word character on
\* exactly one side of the end of t, so a term that ends in ")" is found
\* only when a word character follows it
Found(t, w) == IF t \in EndsOutsideWord THEN w = Glued(t) ELSE w = t

\* the terms of a vocabulary that re.search finds
Matching(vocab, normalized) ==
    {t \in vocab : \E i \in DOMAIN normalized : Found(t, normalized[i])}

\* the for/break loop over a set: the first term in iteration order that
\* matches wins, and the iteration order of a set of str is unspecified
FirstMatch(vocab, normalized) ==
    IF Matching(vocab, normalized) = {}
    THEN {None}
    ELSE {Str(<<t>>) : t \in Matching(vocab, normalized)}

\* re.search returns the leftmost match; it is kept only if in VALID_YEARS
ParseYear(normalized) ==
    LET idx == {i \in DOMAIN normalized : normalized[i] \in YearWords}
    IN  IF idx = {}
        THEN None
        ELSE LET first == CHOOSE i \in idx : \A j \in idx : i <= j
             IN  IF YearOf(normalized[first]) \in VALID_YEARS
                 THEN IntV(YearOf(normalized[first]))
                 ELSE None

\* the possible results (disaster_type, country, year) of parsing a prompt
parse_disaster_prompt(p) ==
    {<<d, c, ParseYear(Normalize(p))>> :
        d \in FirstMatch(DISASTER_TYPES, Normalize(p)),
        c \in FirstMatch(COUNTRIES, Normalize(p))}

(***************************************************************************)
(* Outcome of a call that may raise                                        *)
(***************************************************************************)
Ok(v) == [ok |-> TRUE, v |-> v]
\* an exception whose str(e) is the given sequence of parts
Raise(msg) == [ok |-> FALSE, exc |-> msg]

(***************************************************************************)
(* DISASTER_TABLE                                                          *)
(***************************************************************************)
\* the LOCATION cell is the sequence of its comma-separated parts, the
\* NULL cell being the only one with no part ("".split(",") has one)
NullLoc == <<>>

Ev(type, country, year, deaths, affected, totaff, damage, loc) ==
    [DISASTER_TYPE |-> type, COUNTRY |-> country, REGION |-> "Americas",
     EVENT_NAME |-> NULL,
     START_YEAR |-> year, TOTAL_DEATHS |-> deaths, NO_AFFECTED |-> affected,
     TOTAL_AFFECTED |-> totaff, TOTAL_DAMAGE_000_USD |-> damage,
     NO_INJURED |-> NaN, NO_HOMELESS |-> NaN,
     INSURED_DAMAGE_000_USD |-> NaN, RECONSTRUCTION_COSTS_000_USD |-> NaN,
     LOCATION |-> loc]

\* six years of floods in Brazil, every cell filled
TableRich ==
    << Ev("Flood", "Brazil", 2010, 10, 100, 100, 5, <<"Rio", " Recife">>),
       Ev("Flood", "Brazil", 2011, 20, 150, 150, NaN, <<"Recife">>),
       Ev("Flood", "Brazil", 2012, NaN, 200, 200, 7, <<"Rio">>),
       Ev("Flood", "Brazil", 2013, 5, 250, 250, 1, <<"Cuiaba", " Rio">>),
       Ev("Flood", "Brazil", 2014, 0, 300, 300, 2, <<"Recife", " Manaus">>),
       Ev("Flood", "Brazil", 2015, 1, 350, 350, 3, <<"Manaus">>) >>

\* few rows, one of them without a location
TableSparse ==
    << Ev("Flood", "Brazil", 2015, 3, 40, 40, 2, <<"Rio">>),
       Ev("Storm", "Mexico", 2015, 1, 10, 10, 1, <<"Cancun">>),
       Ev("Flood", "Brazil", 2016, NaN, NaN, NaN, NaN, NullLoc),
       Ev("Storm", "Brazil", 2015, 2, 20, NaN, 1, <<"Rio">>) >>

\* more than two located rows and one row without a location
TableMixed ==
    << Ev("Flood", "Brazil", 2015, 1, 1, 1, 1, <<"Rio">>),
       Ev("Flood", "Brazil", 2015, 1, 1, 1, 1, NullLoc),
       Ev("Flood", "Brazil", 2016, 1, 1, 1, 1, <<"Rio">>),
       Ev("Flood", "Brazil", 2017, 1, 1, 1, 1, <<"Recife">>) >>

\* matching rows whose START_YEAR is NULL
TableNoYear ==
    << Ev("Flood", "Brazil", NaN, 1, 1, 1, 1, <<"Rio">>),
       Ev("Storm", "Brazil", NaN, 1, 1, 1, 1, <<"Rio">>) >>

\* no flood and nothing in Brazil
TableOther ==
    << Ev("Storm", "Mexico", 2015, 1, 10, 10, 1, <<"Cancun">>) >>

\* three years of floods in Brazil after three years of floods in Mexico
TableAbroad ==
    << Ev("Flood", "Mexico", 2010, 1, 10, 10, 1, <<"Cancun">>),
       Ev("Flood", "Mexico", 2011, 1, 20, 20, 1, <<"Cancun">>),
       Ev("Flood", "Mexico", 2012, 1, 30, 30, 1, <<"Cancun">>),
       Ev("Flood", "Brazil", 2013, 1, 40, 40, 1, <<"Rio">>),
       Ev("Flood", "Brazil", 2014, 1, 50, 50, 1, <<"Recife">>),
       Ev("Flood", "Brazil", 2015, 2, 60, 60, 1, <<"Rio">>) >>

TableNames == {"rich", "sparse", "mixed", "noyear", "other", "abroad"}
TableOf(name) ==
    CASE name = "rich" -> TableRich
      [] name = "abroad" -> TableAbroad
      [] name = "sparse" -> TableSparse
      [] name = "mixed" -> TableMixed
      [] name = "noyear" -> TableNoYear
      [] OTHER -> TableOther

(***************************************************************************)
(* dataretrieve.py                                                         *)
(***************************************************************************)
DefaultLimit == 10000
HeadRows == 5

\* the prefix of at most n elements
Prefix(seq, n) == SubSeq(seq, 1, IF Len(seq) < n THEN Len(seq) ELSE n)

\* the WHERE clause built from the supplied criteria
RowMatches(row, disaster_type, country, year) ==
    /\ Truthy(disaster_type) =>
          Lower(row.DISASTER_TYPE) = Lower(disaster_type.v[1])
    /\ Truthy(country) => Lower(row.COUNTRY) = Lower(country.v[1])
    /\ Truthy(year) =>
          IF year.kind = "tuple"
          THEN /\ row.START_YEAR # NaN
               /\ year.v[1] <= row.START_YEAR
               /\ row.START_YEAR <= year.v[2]
          ELSE row.START_YEAR = year.v

SelectedColumns(row) ==
    [DISASTER_TYPE |-> row.DISASTER_TYPE, COUNTRY |-> row.COUNTRY,
     REGION |-> row.REGION, EVENT_NAME |-> row.EVENT_NAME, START_YEAR |-> row.START_YEAR,
     TOTAL_DEATHS |-> row.TOTAL_DEATHS, NO_AFFECTED |-> row.NO_AFFECTED,
     TOTAL_DAMAGE_000_USD |-> row.TOTAL_DAMAGE_000_USD,
     LOCATION |-> row.LOCATION]

\* the query without its LIMIT clause
QueryRows_NoLimit(table, disaster_type, country, year, limit) ==
    LET hit(row) == RowMatches(row, disaster_type, country, year)
        sel == SelectSeq(table, hit)
    IN  [i \in DOMAIN sel |-> SelectedColumns(sel[i])]

\* the rows the query returns: filter, projection, LIMIT
QueryRows(table, disaster_type, country, year, limit) ==
    LET hit(row) == RowMatches(row, disaster_type, country, year)
        sel == SelectSeq(table, hit)
    IN  Prefix([i \in DOMAIN sel |-> SelectedColumns(sel[i])], limit)

\* the outcomes of the connection: "ok", or a fault in connect(), in
\* execute(), in close(), or in execute() and then in close(); conn exists
\* in locals() once connect() has returned
ConnOutcomes ==
    {"ok", "connect_fault", "query_fault", "close_fault", "query_close_fault"}

\* SnowflakeDataRetrievalAgent.retrieve_data: the DataFrame returned (or
\* the exception that conn.close() raised in the finally clause) and the
\* calls made on the data store and on the log
retrieve_data(table, disaster_type, country, year, limit, conn) ==
    [res |-> CASE conn = "ok" ->
                    Ok(DataFrame(QueryRows(table, disaster_type, country, year, limit)))
               [] conn \in {"close_fault", "query_close_fault"} ->
                    Raise(<<"cannot close the connection">>)
               [] OTHER -> Ok(DataFrame(<<>>)),
     log |-> CASE conn = "connect_fault" -> <<"store.connect", "log.error">>
               [] conn \in {"query_fault", "query_close_fault"} ->
                    <<"store.connect", "store.execute", "log.error", "store.close">>
               [] OTHER -> <<"store.connect", "store.execute", "store.close">>]

\* the values of a column, in row order
Column(rows, col) == [i \in DOMAIN rows |-> rows[i][col]]

\* Series.sum(): NaN cells are skipped
RECURSIVE SumSkipNaN(_)
SumSkipNaN(column) ==
  Bind(column,
       LAMBDA cells :
    IF cells = <<>> THEN 0
    ELSE (IF cells[1] = NaN THEN 0 ELSE cells[1]) + SumSkipNaN(Tail(cells)))

\* Series.unique().tolist(): distinct values in order of first appearance
RECURSIVE Unique(_)
Unique(column) ==
  Bind(column,
       LAMBDA cells :
    IF cells = <<>> THEN <<>>
    ELSE Bind(Unique(SubSeq(cells, 1, Len(cells) - 1)),
              LAMBDA init :
                  LET last == cells[Len(cells)]
                  IN  IF \E i \in DOMAIN init : init[i] = last
                      THEN init
                      ELSE Append(init, last)))

\* the cells of a column that are not NaN
NotNaN(cells) == {cells[i] : i \in {j \in DOMAIN cells : cells[j] # NaN}}

SetMin(S) == CHOOSE x \in S : \A y \in S : x <= y
SetMax(S) == CHOOSE x \in S : \A y \in S : x >= y

SampleEvent(row) ==
    [EVENT_NAME |-> row.EVENT_NAME, START_YEAR |-> row.START_YEAR,
     LOCATION |-> row.LOCATION]

NoDataMessage == <<"No data matching the criteria">>

\* SnowflakeDataRetrievalAgent.get_summary_stats
get_summary_stats(filtered_df) ==
  Bind(filtered_df,
       LAMBDA df :
    IF df.rows = <<>>
    THEN Ok(Dict([message |-> Str(NoDataMessage)]))
    ELSE IF NotNaN(Column(df.rows, "START_YEAR")) = {}
    THEN \* int(nan)
         Raise(<<"cannot convert float NaN to integer">>)
    ELSE Ok(Dict(
           [total_events |-> Len(df.rows),
            countries |-> Unique(Column(df.rows, "COUNTRY")),
            years |-> [min |-> SetMin(NotNaN(Column(df.rows, "START_YEAR"))),
                       max |-> SetMax(NotNaN(Column(df.rows, "START_YEAR")))],
            disaster_types |-> Unique(Column(df.rows, "DISASTER_TYPE")),
            total_deaths |-> SumSkipNaN(Column(df.rows, "TOTAL_DEATHS")),
            total_affected |-> SumSkipNaN(Column(df.rows, "NO_AFFECTED")),
            total_damage_usd |->
                SumSkipNaN(Column(df.rows, "TOTAL_DAMAGE_000_USD")) * 1000,
            sample_events |->
                LET h == Prefix(df.rows, HeadRows)
                IN  [i \in DOMAIN h |-> SampleEvent(h[i])]])))

(***************************************************************************)
(* statistical.py                                                          *)
(***************************************************************************)
\* a float that is the quotient of two integers, in lowest terms
RECURSIVE GCD(_, _)
GCD(a, b) == IF b = 0 THEN a ELSE GCD(b, a % b)
Abs(n) == IF n < 0 THEN -n ELSE n
Ratio(n, d) ==
    LET g == GCD(Abs(n), d)
    IN  [num |-> n \div g, den |-> d \div g]

\* coordinates are in hundredths of a degree
BrazilCoords == [lat |-> -1578, lon |-> -4793]
NoCoords == [lat |-> NaN, lon |-> NaN]
DefaultEpsKm == 300
KmPerDegree == 111
MinSamples == 2
DefaultTopN == 3

\* DisasterStatsAnalyzer._extract_coords
extract_coords(text) == IF text # NullLoc THEN BrazilCoords ELSE NoCoords

\* DisasterStatsAnalyzer._create_dataframe: the rows of self.df
create_dataframe(stats) ==
    IF "sample_events" \notin DOMAIN stats \/ stats.sample_events = <<>>
    THEN <<>>
    ELSE [i \in DOMAIN stats.sample_events |->
            [EVENT_NAME |-> stats.sample_events[i].EVENT_NAME,
             START_YEAR |-> stats.sample_events[i].START_YEAR,
             LOCATION |-> stats.sample_events[i].LOCATION,
             LATITUDE |-> extract_coords(stats.sample_events[i].LOCATION).lat,
             LONGITUDE |-> extract_coords(stats.sample_events[i].LOCATION).lon]]

\* calculate_core_stats with averages of 0 for a summary of no event
calculate_core_stats_ZeroAverages(stats) ==
    IF DOMAIN stats = {}
    THEN Ok(Dict([error |-> Str(<<"No statistics available">>)]))
    ELSE IF "total_deaths" \notin DOMAIN stats
    THEN Raise(<<"'total_deaths'">>)
    ELSE IF "total_events" \notin DOMAIN stats
    THEN Raise(<<"'total_events'">>)
    ELSE IF stats.total_events = 0
    THEN Ok(Dict(Merge(stats,
           [avg_deaths_per_event |-> Ratio(0, 1),
            avg_affected_per_event |-> Ratio(0, 1),
            avg_damage_per_event_usd |-> Ratio(0, 1),
            year_range |-> stats.years.max - stats.years.min])))
    ELSE Ok(Dict(Merge(stats,
           [avg_deaths_per_event |-> Ratio(stats.total_deaths, stats.total_events),
            avg_affected_per_event |-> Ratio(stats.total_affected, stats.total_events),
            avg_damage_per_event_usd |-> Ratio(stats.total_damage_usd, stats.total_events),
            year_range |-> stats.years.max - stats.years.min])))

\* DisasterStatsAnalyzer.calculate_core_stats
calculate_core_stats(stats) ==
    IF DOMAIN stats = {}
    THEN Ok(Dict([error |-> Str(<<"No statistics available">>)]))
    ELSE IF "total_deaths" \notin DOMAIN stats
    THEN Raise(<<"'total_deaths'">>)
    ELSE IF "total_events" \notin DOMAIN stats
    THEN Raise(<<"'total_events'">>)
    ELSE IF stats.total_events = 0
    THEN Raise(<<"division by zero">>)
    ELSE Ok(Dict(Merge(stats,
           [avg_deaths_per_event |-> Ratio(stats.total_deaths, stats.total_events),
            avg_affected_per_event |-> Ratio(stats.total_affected, stats.total_events),
            avg_damage_per_event_usd |-> Ratio(stats.total_damage_usd, stats.total_events),
            year_range |-> stats.years.max - stats.years.min])))

\* the number of cells equal to x
Count(cells, x) == Cardinality({i \in DOMAIN cells : cells[i] = x})

\* DisasterStatsAnalyzer._count_events_by_year
count_events_by_year(df) ==
    LET years == Column(df, "START_YEAR")
    IN  [y \in NotNaN(years) |-> Count(years, y)]

\* str.strip() of one part of a location
Strip(w) ==
    CASE w = " Recife" -> "Recife"
      [] w = " Manaus" -> "Manaus"
      [] w = " Rio" -> "Rio"
      [] OTHER -> w

\* .str.split(',').explode() then .str.strip(): the stripped parts of all
\* locations in row order (a NULL location contributes NaN, which
\* value_counts drops)
RECURSIVE Explode(_)
Explode(locs) ==
    IF locs = <<>> THEN <<>>
    ELSE [i \in DOMAIN locs[1] |-> Strip(locs[1][i])] \o Explode(Tail(locs))

\* value_counts(): distinct values by descending count, values of equal
\* count in order of first appearance
RECURSIVE SortByCount(_, _)
SortByCount(distinct, cells) ==
    IF distinct = <<>> THEN <<>>
    ELSE Bind(CHOOSE i \in DOMAIN distinct :
                 /\ \A j \in DOMAIN distinct :
                       Count(cells, distinct[j]) <= Count(cells, distinct[i])
                 /\ \A j \in 1..(i - 1) :
                       Count(cells, distinct[j]) < Count(cells, distinct[i]),
              LAMBDA best :
                  Bind([k \in 1..(Len(distinct) - 1) |->
                           IF k < best THEN distinct[k] ELSE distinct[k + 1]],
                       LAMBDA rest : <<distinct[best]>> \o SortByCount(rest, cells)))

\* _find_common_locations without head(top_n)
find_common_locations_All(df, top_n) ==
    Bind(Explode(Column(df, "LOCATION")),
         LAMBDA tokens :
             Bind(Unique(tokens),
                  LAMBDA distinct : SortByCount(distinct, tokens)))

\* DisasterStatsAnalyzer._find_common_locations
find_common_locations(df, top_n) ==
    Bind(Explode(Column(df, "LOCATION")),
         LAMBDA tokens :
             Bind(Unique(tokens),
                  LAMBDA distinct : Prefix(SortByCount(distinct, tokens), top_n)))

\* two points are neighbours when their Euclidean distance in degrees is
\* at most eps_km / 111: 111 * d <= eps_km * 100 in hundredths of a degree
Neighbours(p, q, eps_km) ==
    KmPerDegree * KmPerDegree
        * ((p.lat - q.lat) * (p.lat - q.lat) + (p.lon - q.lon) * (p.lon - q.lon))
      <= (eps_km * 100) * (eps_km * 100)

\* the indices density-reachable from the set S of indices
RECURSIVE Reach(_, _, _)
Reach(S, pts, eps_km) ==
    Bind(S \cup {j \in DOMAIN pts : \E i \in S : Neighbours(pts[i], pts[j], eps_km)},
         LAMBDA T : IF T = S THEN S ELSE Reach(T, pts, eps_km))

\* a core point has at least min_samples points (itself included) within eps
IsCore(i, pts, eps_km) ==
    Cardinality({j \in DOMAIN pts : Neighbours(pts[i], pts[j], eps_km)}) >= MinSamples

\* DBSCAN(eps, min_samples=2).fit(coords): with min_samples = 2 every
\* neighbour of a core point is a core point, so a cluster is the set of
\* points reachable from a core point; the member sets, in label order
\* (the order of their first point)
RECURSIVE DbscanFrom(_, _, _, _)
DbscanFrom(i, done, pts, eps_km) ==
    IF i > Len(pts) THEN <<>>
    ELSE IF i \in done \/ ~IsCore(i, pts, eps_km)
    THEN DbscanFrom(i + 1, done, pts, eps_km)
    ELSE Bind(Reach({i}, pts, eps_km),
              LAMBDA members :
                  Bind(done \cup members,
                       LAMBDA seen :
                           <<members>> \o DbscanFrom(i + 1, seen, pts, eps_km)))

\* a clustering that labels every point as a cluster of its own
Dbscan_Singletons(pts, eps_km) == [i \in DOMAIN pts |-> {i}]

Dbscan(pts, eps_km) == DbscanFrom(1, {}, pts, eps_km)

RECURSIVE SumOver(_, _, _)
SumOver(S, pts, field) ==
    IF S = {} THEN 0
    ELSE LET i == CHOOSE x \in S : TRUE
         IN  pts[i][field] + SumOver(S \ {i}, pts, field)

\* DisasterStatsAnalyzer._calculate_cluster_radius: the great-circle
\* distance is 0.0 for members that coincide with the centroid, which is
\* the case of every cluster of points produced by extract_coords; other
\* members are measured on the plane (111 km per degree), in whole km
ISqrt(n) == CHOOSE r \in 0..(n + 1) : r * r <= n /\ n < (r + 1) * (r + 1)
calculate_cluster_radius(members, pts, centroid) ==
    LET n == Cardinality(members)
        d2(i) == (n * pts[i].lat - centroid.lat.num * (n \div centroid.lat.den))
                    * (n * pts[i].lat - centroid.lat.num * (n \div centroid.lat.den))
               + (n * pts[i].lon - centroid.lon.num * (n \div centroid.lon.den))
                    * (n * pts[i].lon - centroid.lon.num * (n \div centroid.lon.den))
        far == SetMax({d2(i) : i \in members})
    IN  (KmPerDegree * ISqrt(far)) \div (100 * n)

\* _detect_clusters reporting the size of the whole frame as the size of
\* each cluster
detect_clusters_CountsFrame(df, eps_km) ==
    LET keep(row) == row.LATITUDE # NaN /\ row.LONGITUDE # NaN
        kept == SelectSeq(df, keep)
        located == [i \in DOMAIN kept |->
                      [lat |-> kept[i].LATITUDE, lon |-> kept[i].LONGITUDE]]
        cluster(members, coords) ==
            Bind([lat |-> Ratio(SumOver(members, coords, "lat"),
                                Cardinality(members)),
                  lon |-> Ratio(SumOver(members, coords, "lon"),
                                Cardinality(members))],
                 LAMBDA centroid :
                     [point_count |-> Len(df) + 1,
                      centroid |-> centroid,
                      radius_km |->
                          calculate_cluster_radius(members, coords, centroid)])
    IN  Bind(located,
             LAMBDA coords :
                 IF Len(coords) > 2
                 THEN IF Len(coords) # Len(df)
                      THEN Raise(<<"Length of values does not match length of index">>)
                      ELSE Bind(Dbscan(coords, eps_km),
                                LAMBDA found :
                                    Ok(Dict([detected_clusters |->
                                        [k \in DOMAIN found |->
                                            cluster(found[k], coords)]])))
                 ELSE Ok(Dict([error |-> Str(<<"Insufficient geospatial data">>)])))

\* DisasterStatsAnalyzer._detect_clusters
detect_clusters(df, eps_km) ==
    LET keep(row) == row.LATITUDE # NaN /\ row.LONGITUDE # NaN
        kept == SelectSeq(df, keep)
        located == [i \in DOMAIN kept |->
                      [lat |-> kept[i].LATITUDE, lon |-> kept[i].LONGITUDE]]
        cluster(members, coords) ==
            Bind([lat |-> Ratio(SumOver(members, coords, "lat"),
                                Cardinality(members)),
                  lon |-> Ratio(SumOver(members, coords, "lon"),
                                Cardinality(members))],
                 LAMBDA centroid :
                     [point_count |-> Cardinality(members),
                      centroid |-> centroid,
                      radius_km |->
                          calculate_cluster_radius(members, coords, centroid)])
    IN  Bind(located,
             LAMBDA coords :
                 IF Len(coords) > 2
                 THEN IF Len(coords) # Len(df)
                      THEN \* self.df['cluster'] = db.labels_
                           Raise(<<"Length of values does not match length of index">>)
                      ELSE Bind(Dbscan(coords, eps_km),
                                LAMBDA found :
                                    Ok(Dict([detected_clusters |->
                                        [k \in DOMAIN found |->
                                            cluster(found[k], coords)]])))
                 ELSE Ok(Dict([error |-> Str(<<"Insufficient geospatial data">>)])))

\* DisasterStatsAnalyzer.analyze_event_patterns
analyze_event_patterns(df) ==
    IF df = <<>>
    THEN Ok(Dict(<<>>))
    ELSE Bind(detect_clusters(df, DefaultEpsKm),
              LAMBDA clusters :
                  IF ~clusters.ok
                  THEN clusters
                  ELSE Ok(Dict(
                         [events_per_year |-> count_events_by_year(df),
                          common_locations |-> find_common_locations(df, DefaultTopN),
                          geospatial_clusters |-> clusters.v])))

(***************************************************************************)
(* visualize.py                                                            *)
(***************************************************************************)
\* os.path.abspath("dashboard.html")
DashboardFile == Str(<<"/cwd/", "dashboard.html">>)

\* DisasterDashboard(stats).create_dashboard(): the file is written and
\* its absolute path returned, unless rendering or writing raises
RenderOutcomes == {"ok", "fault"}
create_dashboard(stats, outcome) ==
    IF outcome = "ok"
    THEN Ok(DashboardFile)
    ELSE Raise(<<"cannot write dashboard.html">>)

(***************************************************************************)
(* forecasting.py                                                          *)
(***************************************************************************)
MinForecastRows == 5
ForecastHorizon == 5

\* the keywords of infer_metric and extract_filters that a word contains
KeywordsIn(w) ==
    CASE w = "flood" -> {"flood"}
      [] w = "drought" -> {"drought"}
      [] w = "deaths" -> {"death"}
      [] w = "injured" -> {"injured"}
      [] w = "affected" -> {"affected"}
      [] w = "homeless" -> {"homeless"}
      [] w = "damage" -> {"damage"}
      [] w = "insured" -> {"insured"}
      [] w = "reconstruction" -> {"reconstruction"}
      [] OTHER -> {}

\* kw in prompt.lower()
Contains(p, kw) == \E i \in DOMAIN p : kw \in KeywordsIn(Lower(p[i]))

\* infer_metric testing "damage" before "insured" and "reconstruction"
infer_metric_DamageFirst(p) ==
    IF Contains(p, "death") THEN "TOTAL_DEATHS"
    ELSE IF Contains(p, "injured") THEN "NO_INJURED"
    ELSE IF Contains(p, "affected") THEN "NO_AFFECTED"
    ELSE IF Contains(p, "homeless") THEN "NO_HOMELESS"
    ELSE IF Contains(p, "damage") THEN "TOTAL_DAMAGE_000_USD"
    ELSE IF Contains(p, "damage") /\ Contains(p, "insured")
         THEN "INSURED_DAMAGE_000_USD"
    ELSE IF Contains(p, "damage") /\ Contains(p, "reconstruction")
         THEN "RECONSTRUCTION_COSTS_000_USD"
    ELSE "TOTAL_AFFECTED"

\* infer_metric
infer_metric(p) ==
    IF Contains(p, "death") THEN "TOTAL_DEATHS"
    ELSE IF Contains(p, "injured") THEN "NO_INJURED"
    ELSE IF Contains(p, "affected") THEN "NO_AFFECTED"
    ELSE IF Contains(p, "homeless") THEN "NO_HOMELESS"
    ELSE IF Contains(p, "damage") /\ Contains(p, "insured")
         THEN "INSURED_DAMAGE_000_USD"
    ELSE IF Contains(p, "damage") /\ Contains(p, "reconstruction")
         THEN "RECONSTRUCTION_COSTS_000_USD"
    ELSE IF Contains(p, "damage") THEN "TOTAL_DAMAGE_000_USD"
    ELSE "TOTAL_AFFECTED"

\* extract_filters: a sequence of [column, value] equality predicates
FilterRules ==
    << [kw |-> "flood", column |-> "DISASTER_TYPE", value |-> "Flood"],
       [kw |-> "earthquake", column |-> "DISASTER_TYPE", value |-> "Earthquake"],
       [kw |-> "cyclone", column |-> "DISASTER_TYPE", value |-> "Cyclone"],
       [kw |-> "tsunami", column |-> "DISASTER_TYPE", value |-> "Tsunami"],
       [kw |-> "wildfire", column |-> "DISASTER_TYPE", value |-> "Wildfire"],
       [kw |-> "drought", column |-> "DISASTER_TYPE", value |-> "Drought"],
       [kw |-> "asia", column |-> "REGION", value |-> "Asia"],
       [kw |-> "africa", column |-> "REGION", value |-> "Africa"],
       [kw |-> "europe", column |-> "REGION", value |-> "Europe"],
       [kw |-> "americas", column |-> "REGION", value |-> "Americas"] >>

extract_filters(p) ==
    LET applies(rule) == Contains(p, rule.kw)
        hit == SelectSeq(FilterRules, applies)
    IN  [i \in DOMAIN hit |-> [column |-> hit[i].column, value |-> hit[i].value]]

\* the ascending sequence of the elements of a set of integers
RECURSIVE Sorted(_)
Sorted(S) ==
    IF S = {} THEN <<>>
    ELSE Bind(SetMin(S), LAMBDA least : <<least>> \o Sorted(S \ {least}))

\* SELECT START_YEAR, SUM(metric) ... WHERE START_YEAR IS NOT NULL AND
\* metric IS NOT NULL AND filters GROUP BY START_YEAR ORDER BY START_YEAR
ForecastQuery(table, metric, filters) ==
    LET hit(row) ==
            /\ row.START_YEAR # NaN
            /\ row[metric] # NaN
            /\ \A i \in DOMAIN filters :
                  row[filters[i].column] = filters[i].value
        ofYear(sel, y) == LET same(row) == row.START_YEAR = y
                          IN  SumSkipNaN(Column(SelectSeq(sel, same), metric))
    IN  Bind(SelectSeq(table, hit),
             LAMBDA sel :
                 Bind(Sorted({sel[i].START_YEAR : i \in DOMAIN sel}),
                      LAMBDA years :
                          [i \in DOMAIN years |->
                              [START_YEAR |-> years[i],
                               value |-> ofYear(sel, years[i])]]))

RECURSIVE SumSeq(_)
SumSeq(s) == IF s = <<>> THEN 0 ELSE s[1] + SumSeq(Tail(s))

\* a prediction that repeats the last value of the history
Predict_LastValue(points, year) == Ratio(points[Len(points)].value, 1)

\* LinearRegression().fit(X, y).predict(year): the least-squares line
\* through the points (START_YEAR, value), evaluated exactly; years are
\* taken relative to the first one, which does not change the line
Predict(points, year) ==
  Bind(points,
       LAMBDA series :
    LET n == Len(series)
        x0 == series[1].START_YEAR
        xs == [i \in DOMAIN series |-> series[i].START_YEAR - x0]
        ys == [i \in DOMAIN series |-> series[i].value]
        sx == SumSeq(xs)
        sy == SumSeq(ys)
        sxx == SumSeq([i \in DOMAIN series |-> xs[i] * xs[i]])
        sxy == SumSeq([i \in DOMAIN series |-> xs[i] * ys[i]])
        d == n * sxx - sx * sx
    IN  Ratio(sy * d + (n * sxy - sx * sy) * (n * (year - x0) - sx), n * d))

\* the slope of that line
Slope(series) ==
    LET n == Len(series)
        x0 == series[1].START_YEAR
        xs == [i \in DOMAIN series |-> series[i].START_YEAR - x0]
        ys == [i \in DOMAIN series |-> series[i].value]
        sx == SumSeq(xs)
        sy == SumSeq(ys)
        sxx == SumSeq([i \in DOMAIN series |-> xs[i] * xs[i]])
        sxy == SumSeq([i \in DOMAIN series |-> xs[i] * ys[i]])
    IN  Ratio(n * sxy - sx * sy, n * sxx - sx * sx)

\* n calls of llm.invoke that return
LlmCalls(n) == [i \in 1..n |-> "llm.invoke"]

\* a call of llm.invoke that raises
LlmFault == <<"llm.invoke", "llm.invoke raised">>

\* the outcomes of the collaborators of generate_forecast
ForecastOutcomes == {"ok", "connect_fault", "query_fault", "chart_fault", "llm_fault"}

ForecastSections ==
    <<"trend_analysis", "growth_decline_phases", "forecast_interpretation",
      "risk_implications", "conclusion">>

\* the "data" entry with a projection that starts at the last year of the
\* history instead of the year after it
ForecastData_FromLastYear(series, metric, filters) ==
    LET last == series[Len(series)].START_YEAR
        future_years == [k \in 1..ForecastHorizon |-> last + k - 1]
        history == [i \in DOMAIN series |->
                      [START_YEAR |-> series[i].START_YEAR,
                       value |-> Ratio(series[i].value, 1)]]
        future == [k \in 1..ForecastHorizon |->
                      [START_YEAR |-> future_years[k],
                       value |-> Predict(series, future_years[k])]]
    IN  Dict([metric |-> metric, filters |-> filters,
              forecast_table |-> history \o future,
              forecast_years |-> future_years])

\* the "data" entry of the output of generate_forecast
ForecastData(series, metric, filters) ==
    LET last == series[Len(series)].START_YEAR
        future_years == [k \in 1..ForecastHorizon |-> last + k]
        history == [i \in DOMAIN series |->
                      [START_YEAR |-> series[i].START_YEAR,
                       value |-> Ratio(series[i].value, 1)]]
        future == [k \in 1..ForecastHorizon |->
                      [START_YEAR |-> future_years[k],
                       value |-> Predict(series, future_years[k])]]
    IN  Dict([metric |-> metric, filters |-> filters,
              forecast_table |-> history \o future,
              forecast_years |-> future_years])

ForecastCharts(metric) ==
    [forecast |-> Str(<<"forecast_", Lower(metric), ".png">>),
     historical |-> Str(<<"historical_", Lower(metric), "_bar.png">>),
     growth |-> Str(<<"growth_", Lower(metric), ".png">>)]

\* generate_forecast marking a series of fewer than 5 years as an error
generate_forecast_FewYearsIsError(p, table, outcome) ==
  Bind(ForecastQuery(table, infer_metric(p), extract_filters(p)),
       LAMBDA series :
    LET metric == infer_metric(p)
        filters == extract_filters(p)
        empty == [data |-> None, charts |-> <<>>, analysis |-> <<>>, error |-> None]
        failed(out, msg) ==
            Merge(out, [status |-> Str(<<"error">>), error |-> Str(msg)])
        withData == [empty EXCEPT !.data = ForecastData(series, metric, filters)]
        withCharts == [withData EXCEPT !.charts = ForecastCharts(metric)]
        generated == [k \in {ForecastSections[i] : i \in DOMAIN ForecastSections} |->
                         Str(<<"generated text">>)]
    IN  [out |->
            Dict(CASE outcome = "connect_fault" -> failed(empty, <<"cannot connect">>)
                   [] outcome = "query_fault" -> failed(empty, <<"query failed">>)
                   [] Len(series) < MinForecastRows ->
                        Merge(empty, [status |-> Str(<<"error">>),
                                      error |-> Str(<<"Not enough data for forecasting.">>)])
                   [] outcome = "chart_fault" -> failed(withData, <<"cannot save chart">>)
                   [] outcome = "llm_fault" -> failed(withCharts, <<"text generation failed">>)
                   [] OTHER -> [withCharts EXCEPT !.analysis = generated]),
         log |-> CASE outcome = "connect_fault" -> <<"store.connect">>
                   [] outcome = "query_fault" -> <<"store.connect", "store.execute">>
                   [] Len(series) < MinForecastRows \/ outcome = "chart_fault" ->
                        <<"store.connect", "store.execute", "store.close">>
                   [] outcome = "llm_fault" ->
                        <<"store.connect", "store.execute", "store.close">> \o LlmFault
                   [] OTHER ->
                        <<"store.connect", "store.execute", "store.close">>
                            \o LlmCalls(Len(ForecastSections))])

\* generate_forecast(prompt): the output dict and the calls made on the
\* data store and on the LLM
generate_forecast(p, table, outcome) ==
  Bind(ForecastQuery(table, infer_metric(p), extract_filters(p)),
       LAMBDA series :
    LET metric == infer_metric(p)
        filters == extract_filters(p)
        empty == [data |-> None, charts |-> <<>>, analysis |-> <<>>, error |-> None]
        failed(out, msg) ==
            Merge(out, [status |-> Str(<<"error">>), error |-> Str(msg)])
        withData == [empty EXCEPT !.data = ForecastData(series, metric, filters)]
        withCharts == [withData EXCEPT !.charts = ForecastCharts(metric)]
        generated == [k \in {ForecastSections[i] : i \in DOMAIN ForecastSections} |->
                         Str(<<"generated text">>)]
    IN  [out |->
            Dict(CASE outcome = "connect_fault" -> failed(empty, <<"cannot connect">>)
                   [] outcome = "query_fault" -> failed(empty, <<"query failed">>)
                   [] Len(series) < MinForecastRows ->
                        Merge(empty, [status |-> Str(<<"warning">>),
                                      error |-> Str(<<"Not enough data for forecasting.">>)])
                   [] outcome = "chart_fault" -> failed(withData, <<"cannot save chart">>)
                   [] outcome = "llm_fault" -> failed(withCharts, <<"text generation failed">>)
                   [] OTHER -> [withCharts EXCEPT !.analysis = generated]),
         log |-> CASE outcome = "connect_fault" -> <<"store.connect">>
                   [] outcome = "query_fault" -> <<"store.connect", "store.execute">>
                   [] Len(series) < MinForecastRows \/ outcome = "chart_fault" ->
                        <<"store.connect", "store.execute", "store.close">>
                   [] outcome = "llm_fault" ->
                        <<"store.connect", "store.execute", "store.close">> \o LlmFault
                   [] OTHER ->
                        <<"store.connect", "store.execute", "store.close">>
                            \o LlmCalls(Len(ForecastSections))])

(***************************************************************************)
(* report.py                                                               *)
(***************************************************************************)
\* ReportSynthesisAgent._process_forecast_data: processed is a shallow
\* copy, so the entries of forecast_table it annotates are the entries of
\* the caller's forecast_data; the caller's value after the call
process_forecast_data(forecast_data) ==
    IF "data" \in DOMAIN forecast_data.v /\ forecast_data.v.data = None
    THEN \* 'forecast_table' in None
         Raise(<<"argument of type 'NoneType' is not iterable">>)
    ELSE IF "data" \notin DOMAIN forecast_data.v
            \/ "forecast_table" \notin DOMAIN forecast_data.v.data.v
    THEN Ok(forecast_data)
    ELSE LET table == forecast_data.v.data.v.forecast_table
             annotate(entry) ==
                 Merge(entry,
                       [formatted_value |->
                           IF "formatted_affected" \in DOMAIN entry
                           THEN entry.formatted_affected
                           ELSE IF "formatted_damage" \in DOMAIN entry
                           THEN entry.formatted_damage
                           ELSE "N/A"])
         IN  Ok(Dict([forecast_data.v EXCEPT !.data =
                    Dict([forecast_data.v.data.v EXCEPT !.forecast_table =
                            [i \in DOMAIN table |-> annotate(table[i])]])]))

\* fixed-point numbers with 4 decimals: base^years rounded down and up
Scale == 10000
RECURSIVE PowDown(_, _)
PowDown(base, years) ==
    IF years = 0 THEN Scale ELSE (PowDown(base, years - 1) * base) \div Scale
RECURSIVE PowUp(_, _)
PowUp(base, years) ==
    IF years = 0 THEN Scale
    ELSE (PowUp(base, years - 1) * base + Scale - 1) \div Scale

\* the rates round(..., 1) can give on the tables of the model, in tenths
\* of a percent
Rates == -100..300

\* round(((last_value / first_value) ** (1/years) - 1) * 100, 1) in tenths
\* of a percent: the rate r with
\*   (1 + (r - 0.5)/1000)^years <= last_value/first_value
\*                              <  (1 + (r + 0.5)/1000)^years
CompoundRate(first_value, last_value, years) ==
    CHOOSE r \in Rates :
        /\ PowUp(Scale + 10 * r - 5, years) * first_value <= last_value * Scale
        /\ PowDown(Scale + 10 * r + 5, years) * first_value > last_value * Scale

\* ReportSynthesisAgent._calculate_growth_rate, in tenths of a percent
calculate_growth_rate(forecast_table) ==
    IF Len(forecast_table) < 2 THEN 0
    ELSE LET first_year == forecast_table[1]
             last_year == forecast_table[Len(forecast_table)]
             years == last_year.START_YEAR - first_year.START_YEAR
             key == IF "TOTAL_AFFECTED" \in DOMAIN first_year
                    THEN "TOTAL_AFFECTED"
                    ELSE "TOTAL_DAMAGE_000_USD"
         IN  IF years = 0 THEN 0
             ELSE IF key \notin DOMAIN first_year THEN 0
             ELSE IF key \notin DOMAIN last_year THEN 0  \* KeyError
             ELSE IF first_year[key] = 0 THEN 0
             ELSE CompoundRate(first_year[key], last_year[key], years)

\* the words of metadata['title']
ReportTitle(input_data) ==
    <<"Comprehensive", "Analysis", "of">> \o Title(input_data.disaster_type).v
        \o <<"in">> \o Title(input_data.country).v

\* title.replace(' ', '_')
RECURSIVE JoinUnderscore(_)
JoinUnderscore(words) ==
    IF Len(words) <= 1 THEN words
    ELSE <<words[1], "_">> \o JoinUnderscore(Tail(words))

\* ReportSynthesisAgent._save_report: os.path.join('reports', title + '.html')
ReportFile(input_data) ==
    Str(<<"reports", "/">> \o JoinUnderscore(ReportTitle(input_data)) \o <<".html">>)

\* the outcomes of the collaborators of the report agent: the LLM client
\* cannot be built, a section cannot be generated, the template cannot be
\* rendered or the file cannot be written
ReportOutcomes == {"ok", "client_fault", "llm_fault", "write_fault"}

\* the sections generate_report asks the LLM for: executive summary,
\* methodology, temporal and geographic analysis, recommendations, and
\* the forecast analysis when there is a forecast
ReportSections(forecast_data) ==
    <<"executive_summary", "methodology", "temporal", "geographic">>
        \o (IF Truthy(forecast_data) THEN <<"forecast">> ELSE <<>>)
        \o <<"recommendations">>

\* ReportSynthesisAgent(...).generate_report(): the path or the fault,
\* the caller's forecast_data after the call, and the calls made on the LLM
synthesize_report(input_data, forecast_data, outcome) ==
    LET processed == IF Truthy(forecast_data)
                     THEN process_forecast_data(forecast_data)
                     ELSE Ok(forecast_data)
    IN  IF outcome = "client_fault"
        THEN [res |-> Raise(<<"cannot create the LLM client">>),
              forecast_data |-> forecast_data, log |-> <<>>]
        ELSE IF ~processed.ok
        THEN [res |-> processed, forecast_data |-> forecast_data, log |-> <<>>]
        ELSE [res |-> CASE outcome = "llm_fault" -> Raise(<<"text generation failed">>)
                        [] outcome = "write_fault" -> Raise(<<"cannot write the report">>)
                        [] OTHER -> Ok(ReportFile(input_data)),
              forecast_data |-> processed.v,
              log |-> IF outcome = "llm_fault"
                      THEN LlmFault
                      ELSE LlmCalls(Len(ReportSections(forecast_data)))]

(***************************************************************************)
(* langraph.py: the nodes.  A node maps the state it receives to the       *)
(* state it returns (st) and the collaborator calls it made (log); exc is  *)
(* the exception the node let escape, None when it returned.               *)
(***************************************************************************)
Returns(st, log) == [st |-> st, log |-> log, exc |-> None]
Escapes(st, log, msg) == [st |-> st, log |-> log, exc |-> Str(msg)]
Unchanged(st) == Returns(st, <<>>)

parse_input(st, parsed) ==
    [st |-> Merge(st, [disaster_type |-> parsed[1], country |-> parsed[2],
                       year |-> parsed[3], output |-> None, raw_data |-> None,
                       summary_stats |-> None, enhanced_stats |-> None,
                       event_patterns |-> None]),
     log |-> <<"parse_disaster_prompt">>, exc |-> None]

\* validate_input rejecting only a prompt that names neither field
validate_input_BothMissing(st) ==
    IF "disaster_type" \notin DOMAIN st
    THEN Escapes(st, <<>>, <<"'disaster_type'">>)
    ELSE IF ~Truthy(st.disaster_type) /\ ~Truthy(st.country)
    THEN [st |-> Merge(st,
            [validation_error |->
                Str(<<"Missing required fields (disaster type and country)">>),
             output |-> Str(<<"Error: Missing required fields">>)]),
          log |-> <<>>, exc |-> None]
    ELSE Unchanged(st)

validate_input(st) ==
    IF "disaster_type" \notin DOMAIN st
    THEN Escapes(st, <<>>, <<"'disaster_type'">>)
    ELSE IF Truthy(st.disaster_type) /\ "country" \notin DOMAIN st
    THEN Escapes(st, <<>>, <<"'country'">>)
    ELSE IF ~Truthy(st.disaster_type) \/ ~Truthy(st.country)
    THEN [st |-> Merge(st,
            [validation_error |->
                Str(<<"Missing required fields (disaster type and country)">>),
             output |-> Str(<<"Error: Missing required fields">>)]),
          log |-> <<>>, exc |-> None]
    ELSE Unchanged(st)

\* the conditional edge with its two targets exchanged
route_after_validate_Inverted(st) ==
    IF "validation_error" \in DOMAIN st THEN "retrieve_data" ELSE "handle_error"

\* the conditional edge out of validate_input
route_after_validate(st) ==
    IF "validation_error" \in DOMAIN st THEN "handle_error" ELSE "retrieve_data"

\* handle_error returning a state without the parsed year
handle_error_DropsYear(st) ==
    LET error == IF "validation_error" \in DOMAIN st
                 THEN st.validation_error
                 ELSE Str(<<"Unknown error">>)
    IN  [st |-> Merge(st, [output |-> Str(<<"Input error: ">> \o error.v),
                           year |-> None]),
         log |-> <<>>, exc |-> None]

handle_error(st) ==
    LET error == IF "validation_error" \in DOMAIN st
                 THEN st.validation_error
                 ELSE Str(<<"Unknown error">>)
    IN  [st |-> Merge(st, [output |-> Str(<<"Input error: ">> \o error.v)]),
         log |-> <<>>, exc |-> None]

\* retrieve_data without its try/except
retrieve_data_node_NoTry(st, table, conn) ==
    LET got == retrieve_data(table, st.disaster_type, st.country, st.year,
                             DefaultLimit, conn)
        stats == IF got.res.ok THEN get_summary_stats(got.res.v) ELSE got.res
        made == IF got.res.ok THEN <<"get_summary_stats">> ELSE <<>>
    IN  IF stats.ok
        THEN [st |-> Merge(st, [raw_data |-> got.res.v, summary_stats |-> stats.v,
                                output |-> Str(<<"Data retrieved successfully">>)]),
              log |-> <<"retrieve_data">> \o got.log \o made, exc |-> None]
        ELSE Escapes(st, <<"retrieve_data">> \o got.log \o made, stats.exc)

retrieve_data_node(st, table, conn) ==
  Bind(retrieve_data(table, st.disaster_type, st.country, st.year,
                     DefaultLimit, conn),
       LAMBDA got :
  Bind(IF got.res.ok THEN get_summary_stats(got.res.v) ELSE got.res,
       LAMBDA stats :
    LET made == IF got.res.ok THEN <<"get_summary_stats">> ELSE <<>>
    IN  IF stats.ok
        THEN [st |-> Merge(st, [raw_data |-> got.res.v, summary_stats |-> stats.v,
                                output |-> Str(<<"Data retrieved successfully">>)]),
              log |-> <<"retrieve_data">> \o got.log \o made, exc |-> None]
        ELSE [st |-> Merge(st,
                [validation_error |-> Str(<<"Data retrieval failed: ">> \o stats.exc),
                 output |-> Str(<<"Error retrieving data: ">> \o stats.exc)]),
              log |-> <<"retrieve_data">> \o got.log \o made, exc |-> None]))

\* the keys analyze_statistics adds to event_patterns when they are missing
PatternDefaults ==
    [common_locations |-> <<>>, events_per_year |-> <<>>,
     geospatial_clusters |-> Dict(<<>>)]

\* analyze_statistics that does not store the enhanced statistics
analyze_statistics_NoEnhancedStats(st) ==
    IF ~Truthy(Get(st, "summary_stats"))
    THEN [st |-> Merge(st,
            [validation_error |-> Str(<<"No statistics available for analysis">>),
             output |-> Str(<<"Error: No data available for analysis">>)]),
          log |-> <<>>, exc |-> None]
    ELSE LET stats == st.summary_stats.v
             df == create_dataframe(stats)
             enhanced == calculate_core_stats(stats)
             found == analyze_event_patterns(df)
             patterns == Merge(PatternDefaults, found.v.v)
             failed(exc) ==
                 Merge(st,
                    [validation_error |->
                        Str(<<"Statistical analysis failed: ">> \o exc),
                     output |-> Str(<<"Error during analysis: ">> \o exc)])
         IN  IF ~enhanced.ok
             THEN [st |-> failed(enhanced.exc),
                   log |-> <<"DisasterStatsAnalyzer", "calculate_core_stats">>, exc |-> None]
             ELSE IF ~found.ok
             THEN [st |-> failed(found.exc),
                   log |-> <<"DisasterStatsAnalyzer", "calculate_core_stats",
                             "analyze_event_patterns">>, exc |-> None]
             ELSE [st |-> Merge(st,
                      [enhanced_stats |-> None,
                       event_patterns |-> Dict(patterns),
                       output |-> Str(<<"Statistical analysis completed">>),
                       summary_stats |-> Dict(Merge(stats, patterns))]),
                   log |-> <<"DisasterStatsAnalyzer", "calculate_core_stats",
                             "analyze_event_patterns">>, exc |-> None]

analyze_statistics(st) ==
    IF ~Truthy(Get(st, "summary_stats"))
    THEN [st |-> Merge(st,
            [validation_error |-> Str(<<"No statistics available for analysis">>),
             output |-> Str(<<"Error: No data available for analysis">>)]),
          log |-> <<>>, exc |-> None]
    ELSE LET stats == st.summary_stats.v
             df == create_dataframe(stats)
             enhanced == calculate_core_stats(stats)
             found == analyze_event_patterns(df)
             patterns == Merge(PatternDefaults, found.v.v)
             failed(exc) ==
                 Merge(st,
                    [validation_error |->
                        Str(<<"Statistical analysis failed: ">> \o exc),
                     output |-> Str(<<"Error during analysis: ">> \o exc)])
         IN  IF ~enhanced.ok
             THEN [st |-> failed(enhanced.exc),
                   log |-> <<"DisasterStatsAnalyzer", "calculate_core_stats">>, exc |-> None]
             ELSE IF ~found.ok
             THEN [st |-> failed(found.exc),
                   log |-> <<"DisasterStatsAnalyzer", "calculate_core_stats",
                             "analyze_event_patterns">>, exc |-> None]
             ELSE [st |-> Merge(st,
                      [enhanced_stats |-> enhanced.v,
                       event_patterns |-> Dict(patterns),
                       output |-> Str(<<"Statistical analysis completed">>),
                       summary_stats |-> Dict(Merge(stats, patterns))]),
                   log |-> <<"DisasterStatsAnalyzer", "calculate_core_stats",
                             "analyze_event_patterns">>, exc |-> None]

\* generate_visualizations without the validation_error relay
generate_visualizations_NoRelay(st, outcome) ==
    IF ~Truthy(Get(st, "summary_stats"))
    THEN [st |-> Merge(st,
            [output |-> Str(<<"No data available for visualization">>),
             dashboard_path |-> None]),
          log |-> <<>>, exc |-> None]
    ELSE LET made == create_dashboard(st.summary_stats.v, outcome)
         IN  IF made.ok
             THEN [st |-> Merge(st,
                     [dashboard_path |-> made.v,
                      output |-> Str(<<"Visualizations generated at ">> \o made.v.v)]),
                   log |-> <<"create_dashboard">>, exc |-> None]
             ELSE [st |-> Merge(st,
                     [validation_error |-> Str(<<"Visualization failed: ">> \o made.exc),
                      output |-> Str(<<"Error generating visualizations: ">> \o made.exc)]),
                   log |-> <<"create_dashboard">>, exc |-> None]

generate_visualizations(st, outcome) ==
    IF Truthy(Get(st, "validation_error"))
    THEN Unchanged(st)
    ELSE IF ~Truthy(Get(st, "summary_stats"))
    THEN [st |-> Merge(st,
            [output |-> Str(<<"No data available for visualization">>),
             dashboard_path |-> None]),
          log |-> <<>>, exc |-> None]
    ELSE LET made == create_dashboard(st.summary_stats.v, outcome)
         IN  IF made.ok
             THEN [st |-> Merge(st,
                     [dashboard_path |-> made.v,
                      output |-> Str(<<"Visualizations generated at ">> \o made.v.v)]),
                   log |-> <<"create_dashboard">>, exc |-> None]
             ELSE [st |-> Merge(st,
                     [validation_error |-> Str(<<"Visualization failed: ">> \o made.exc),
                      output |-> Str(<<"Error generating visualizations: ">> \o made.exc)]),
                   log |-> <<"create_dashboard">>, exc |-> None]

\* the words of the prompt generate_forecast_data hands to generate_forecast
forecast_prompt(st) ==
    <<"Analyze">> \o st.disaster_type.v \o <<"in">> \o st.country.v
        \o (IF Truthy(Get(st, "year"))
            THEN <<"for", "year", IntToStr(st.year.v)>>
            ELSE <<>>)

\* generate_forecast_data that reports a failed forecast in output only
generate_forecast_data_ErrorInOutputOnly(st, table, outcome) ==
    IF Truthy(Get(st, "validation_error"))
    THEN Unchanged(st)
    ELSE IF ~Truthy(Get(st, "disaster_type")) \/ ~Truthy(Get(st, "country"))
    THEN [st |-> Merge(st,
            [validation_error |-> Str(<<"Missing required fields for forecast">>),
             output |-> Str(<<"Error: Missing disaster type or country for forecast">>)]),
          log |-> <<>>, exc |-> None]
    ELSE Bind(generate_forecast(forecast_prompt(st), table, outcome),
              LAMBDA made :
             IF Truthy(Get(made.out.v, "error"))
             THEN [st |-> Merge(st,
                     [output |->
                         Str(<<"Error generating forecast: ">> \o made.out.v.error.v)]),
                   log |-> <<"generate_forecast">> \o made.log, exc |-> None]
             ELSE [st |-> Merge(st,
                     [forecast_data |-> made.out,
                      output |-> Str(<<"Forecast data generated successfully">>)]),
                   log |-> <<"generate_forecast">> \o made.log, exc |-> None])

generate_forecast_data(st, table, outcome) ==
    IF Truthy(Get(st, "validation_error"))
    THEN Unchanged(st)
    ELSE IF ~Truthy(Get(st, "disaster_type")) \/ ~Truthy(Get(st, "country"))
    THEN [st |-> Merge(st,
            [validation_error |-> Str(<<"Missing required fields for forecast">>),
             output |-> Str(<<"Error: Missing disaster type or country for forecast">>)]),
          log |-> <<>>, exc |-> None]
    ELSE Bind(generate_forecast(forecast_prompt(st), table, outcome),
              LAMBDA made :
             IF Truthy(Get(made.out.v, "error"))
             THEN [st |-> Merge(st,
                     [validation_error |->
                         Str(<<"Forecast generation failed: ">> \o made.out.v.error.v),
                      output |->
                         Str(<<"Error generating forecast: ">> \o made.out.v.error.v)]),
                   log |-> <<"generate_forecast">> \o made.log, exc |-> None]
             ELSE [st |-> Merge(st,
                     [forecast_data |-> made.out,
                      output |-> Str(<<"Forecast data generated successfully">>)]),
                   log |-> <<"generate_forecast">> \o made.log, exc |-> None])

\* generate_report without the validation_error relay
generate_report_NoRelay(st, outcome) ==
    IF \E k \in {"disaster_type", "country", "summary_stats",
                 "enhanced_stats", "event_patterns"} : ~Truthy(Get(st, k))
    THEN [st |-> Merge(st,
            [validation_error |-> Str(<<"Insufficient data for report generation">>),
             output |-> Str(<<"Error: Missing required data for report">>)]),
          log |-> <<>>, exc |-> None]
    ELSE LET input_data == [disaster_type |-> st.disaster_type,
                            country |-> st.country, year |-> Get(st, "year")]
             made == synthesize_report(input_data, Get(st, "forecast_data"), outcome)
         IN  IF made.res.ok
             THEN [st |-> Merge(st,
                     [report_path |-> made.res.v,
                      output |-> Str(<<"Final report generated at ">> \o made.res.v.v)]),
                   log |-> <<"ReportSynthesisAgent">> \o made.log, exc |-> None]
             ELSE [st |-> Merge(st,
                     [validation_error |->
                         Str(<<"Report generation failed: ">> \o made.res.exc),
                      output |-> Str(<<"Error generating report: ">> \o made.res.exc)]),
                   log |-> <<"ReportSynthesisAgent">> \o made.log, exc |-> None]

generate_report(st, outcome) ==
    IF Truthy(Get(st, "validation_error"))
    THEN Unchanged(st)
    ELSE IF \E k \in {"disaster_type", "country", "summary_stats",
                      "enhanced_stats", "event_patterns"} : ~Truthy(Get(st, k))
    THEN [st |-> Merge(st,
            [validation_error |-> Str(<<"Insufficient data for report generation">>),
             output |-> Str(<<"Error: Missing required data for report">>)]),
          log |-> <<>>, exc |-> None]
    ELSE LET input_data == [disaster_type |-> st.disaster_type,
                            country |-> st.country, year |-> Get(st, "year")]
             made == synthesize_report(input_data, Get(st, "forecast_data"), outcome)
             \* the value forecast_data refers to after the agent annotated it
             shared == IF "forecast_data" \in DOMAIN st
                       THEN [st EXCEPT !["forecast_data"] = made.forecast_data]
                       ELSE st
         IN  IF made.res.ok
             THEN [st |-> Merge(shared,
                     [report_path |-> made.res.v,
                      output |-> Str(<<"Final report generated at ">> \o made.res.v.v)]),
                   log |-> <<"ReportSynthesisAgent">> \o made.log, exc |-> None]
             ELSE [st |-> Merge(shared,
                     [validation_error |->
                         Str(<<"Report generation failed: ">> \o made.res.exc),
                      output |-> Str(<<"Error generating report: ">> \o made.res.exc)]),
                   log |-> <<"ReportSynthesisAgent">> \o made.log, exc |-> None]

\* format_final_output printing the year whether or not one was parsed
format_final_output_PrintsUnsetYear(st) ==
    IF Truthy(Get(st, "validation_error"))
    THEN [st |-> Merge(st,
            [output |-> Str(<<"Processing failed: ">> \o st.validation_error.v)]),
          log |-> <<>>, exc |-> None]
    ELSE IF ~Truthy(Get(st, "disaster_type")) \/ ~Truthy(Get(st, "country"))
    THEN Escapes(st, <<>>, <<"'NoneType' object has no attribute 'title'">>)
    ELSE LET base == <<"Processing completed successfully!", "\n", "Disaster: ">>
                        \o Title(st.disaster_type).v
                        \o <<"\n", "Country: ">> \o Title(st.country).v \o <<"\n">>
             year == <<"Year: ",
                       IF Truthy(Get(st, "year")) THEN IntToStr(st.year.v) ELSE "None",
                       "\n">>
             dashboard == IF Truthy(Get(st, "dashboard_path"))
                          THEN <<"\n", "Dashboard: file://">>
                                  \o st.dashboard_path.v \o <<"\n">>
                          ELSE <<>>
             report == IF Truthy(Get(st, "report_path"))
                       THEN <<"\n", "Full Report: file://">>
                               \o st.report_path.v \o <<"\n">>
                       ELSE <<>>
         IN  [st |-> Merge(st, [output |-> Str(base \o year \o dashboard \o report)]),
              log |-> <<>>, exc |-> None]

format_final_output(st) ==
    IF Truthy(Get(st, "validation_error"))
    THEN [st |-> Merge(st,
            [output |-> Str(<<"Processing failed: ">> \o st.validation_error.v)]),
          log |-> <<>>, exc |-> None]
    ELSE IF ~Truthy(Get(st, "disaster_type")) \/ ~Truthy(Get(st, "country"))
    THEN \* state['disaster_type'].title() on a missing or None field
         Escapes(st, <<>>, <<"'NoneType' object has no attribute 'title'">>)
    ELSE LET base == <<"Processing completed successfully!", "\n", "Disaster: ">>
                        \o Title(st.disaster_type).v
                        \o <<"\n", "Country: ">> \o Title(st.country).v \o <<"\n">>
             year == IF Truthy(Get(st, "year"))
                     THEN <<"Year: ", IntToStr(st.year.v), "\n">>
                     ELSE <<>>
             dashboard == IF Truthy(Get(st, "dashboard_path"))
                          THEN <<"\n", "Dashboard: file://">>
                                  \o st.dashboard_path.v \o <<"\n">>
                          ELSE <<>>
             report == IF Truthy(Get(st, "report_path"))
                       THEN <<"\n", "Full Report: file://">>
                               \o st.report_path.v \o <<"\n">>
                       ELSE <<>>
         IN  [st |-> Merge(st, [output |-> Str(base \o year \o dashboard \o report)]),
              log |-> <<>>, exc |-> None]

(***************************************************************************)
(* langraph.py: the workflow; main.py: the entry point                     *)
(***************************************************************************)
Prompts == UNION {[1..n -> Words] : n \in 0..MaxPromptLen}

\* output_dir: the default of AnalysisRequest or a directory of the caller
OutputDirs == {"reports", "out"}

\* dir_exists is what os.path.exists(request.output_dir) answers; with
\* save_report false the condition of line 38 short-circuits, output_dir is
\* never read and stays at its default
Requests ==
    [prompt : Prompts, save_report : {TRUE}, output_dir : OutputDirs,
     dir_exists : BOOLEAN]
    \cup [prompt : Prompts, save_report : {FALSE}, output_dir : {"reports"},
          dir_exists : {FALSE}]

Init ==
    /\ request \in Requests
    /\ store \in TableNames
    /\ state = <<>>
    /\ pc = "begin"
    /\ executed = <<>>
    /\ calls = <<>>
    /\ raised = None
    /\ response = None
    /\ earlier = None

\* a node runs: the state it returns replaces the state and the edge out
\* of the node is followed; an exception it lets escape ends invoke()
RunNode(name, returned, next) ==
    /\ pc = name
    /\ \E result \in {returned} :
          /\ state' = IF result.exc = None THEN result.st ELSE state
          /\ calls' = calls \o result.log
          /\ raised' = result.exc
          /\ pc' = IF result.exc = None THEN next ELSE "raised"
    /\ executed' = Append(executed, name)
    /\ UNCHANGED <<request, store, response, earlier>>

HTTPException(code, detail) ==
    [kind |-> "HTTPException", status_code |-> code, detail |-> Str(detail)]

\* analyze_disaster up to workflow_app.invoke({"prompt": request.prompt})
MakedirsOutcomes == {"ok", "fault"}
Begin ==
    /\ pc = "begin"
    /\ \E mk \in MakedirsOutcomes :
          IF request.save_report /\ ~request.dir_exists /\ mk = "fault"
          THEN /\ response' = HTTPException(500,
                                <<"Analysis failed: ", "cannot create the directory">>)
               /\ pc' = "replied"
               /\ calls' = Append(calls, "os.makedirs")
               /\ UNCHANGED state
          ELSE /\ state' = [prompt |-> Str(request.prompt)]
               /\ pc' = "parse_input"
               /\ calls' = IF request.save_report /\ ~request.dir_exists
                           THEN Append(calls, "os.makedirs")
                           ELSE calls
               /\ UNCHANGED response
    /\ UNCHANGED <<request, store, executed, raised, earlier>>

ParseInput ==
    /\ pc = "parse_input"
    /\ \E parsed \in parse_disaster_prompt(state.prompt.v) :
        RunNode("parse_input", parse_input(state, parsed), "validate_input")

ValidateInput ==
    RunNode("validate_input", validate_input(state),
            route_after_validate(validate_input(state).st))

\* handle_error with an edge to format_output instead of END
HandleError_ThenFormatOutput ==
    RunNode("handle_error", handle_error(state), "format_output")

HandleError == RunNode("handle_error", handle_error(state), "END")

RetrieveData ==
    \E conn \in ConnOutcomes :
        RunNode("retrieve_data", retrieve_data_node(state, TableOf(store), conn),
                "analyze_statistics")

AnalyzeStatistics ==
    RunNode("analyze_statistics", analyze_statistics(state),
            "generate_visualizations")

GenerateVisualizations ==
    \E outcome \in RenderOutcomes :
        RunNode("generate_visualizations", generate_visualizations(state, outcome),
                "generate_forecast")

\* generate_forecast with its edge to format_output, past generate_report
GenerateForecast_SkipsReport ==
    \E outcome \in ForecastOutcomes :
        RunNode("generate_forecast",
                generate_forecast_data(state, TableOf(store), outcome),
                "format_output")

GenerateForecast ==
    \E outcome \in ForecastOutcomes :
        RunNode("generate_forecast",
                generate_forecast_data(state, TableOf(store), outcome),
                "generate_report")

GenerateReport ==
    \E outcome \in ReportOutcomes :
        RunNode("generate_report", generate_report(state, outcome), "format_output")

FormatOutput == RunNode("format_output", format_final_output(state), "END")

\* a response that carries the artifact paths only on success
AnalysisResponse_PathsOnSuccess(result) ==
    [kind |-> "AnalysisResponse",
     status |-> IF "validation_error" \notin DOMAIN result
                THEN Str(<<"success">>) ELSE Str(<<"error">>),
     message |-> result.output,
     dashboard_path |-> IF "validation_error" \notin DOMAIN result
                        THEN Get(result, "dashboard_path") ELSE None,
     report_path |-> IF "validation_error" \notin DOMAIN result
                     THEN Get(result, "report_path") ELSE None]

\* analyze_disaster after invoke returned: the response built from result
AnalysisResponse(result) ==
    [kind |-> "AnalysisResponse",
     status |-> IF "validation_error" \notin DOMAIN result
                THEN Str(<<"success">>) ELSE Str(<<"error">>),
     message |-> result.output,
     dashboard_path |-> Get(result, "dashboard_path"),
     report_path |-> Get(result, "report_path")]

\* analyze_disaster answering without the report path of the result
Respond_NoReportPath ==
    /\ pc \in {"END", "raised"}
    /\ response' =
          IF pc = "raised"
          THEN HTTPException(500, <<"Analysis failed: ">> \o raised.v)
          ELSE IF "output" \notin DOMAIN state
          THEN HTTPException(500, <<"Analysis failed: ", "'output'">>)
          ELSE [AnalysisResponse(state) EXCEPT !.report_path = None]
    /\ pc' = "replied"
    /\ UNCHANGED <<request, store, state, executed, calls, raised, earlier>>

\* result["output"] raises KeyError when no node wrote output; whatever
\* is raised inside the try block is answered with HTTP 500
Respond ==
    /\ pc \in {"END", "raised"}
    /\ response' =
          IF pc = "raised"
          THEN HTTPException(500, <<"Analysis failed: ">> \o raised.v)
          ELSE IF "output" \notin DOMAIN state
          THEN HTTPException(500, <<"Analysis failed: ", "'output'">>)
          ELSE AnalysisResponse(state)
    /\ pc' = "replied"
    /\ UNCHANGED <<request, store, state, executed, calls, raised, earlier>>

\* the artifact files a run has recorded in its state: the dashboard, the
\* charts of the forecast and the report
WrittenPaths(st) ==
    (IF Truthy(Get(st, "dashboard_path")) THEN {st.dashboard_path.v} ELSE {})
    \cup (IF Truthy(Get(st, "forecast_data"))
          THEN {st.forecast_data.v.charts[k].v :
                    k \in DOMAIN st.forecast_data.v.charts}
          ELSE {})
    \cup (IF Truthy(Get(st, "report_path")) THEN {st.report_path.v} ELSE {})

Range(seq) == {seq[i] : i \in DOMAIN seq}

\* the store answered the query of retrieve_data
StoreAnswered ==
    /\ "get_summary_stats" \in Range(calls)
    /\ "log.error" \notin Range(calls)

\* what is kept of a run that has replied
RunRecord ==
    [kind |-> "run", request |-> request, executed |-> executed,
     answered |-> StoreAnswered,
     disaster_type |-> Get(state, "disaster_type"),
     country |-> Get(state, "country"),
     year |-> Get(state, "year"),
     summary_stats |-> Get(state, "summary_stats"),
     event_patterns |-> Get(state, "event_patterns"),
     paths |-> WrittenPaths(state)]

\* the prompt that asks the same about the other disaster category
OtherCategory(prompt) ==
    [i \in DOMAIN prompt |->
        CASE prompt[i] = "Flood" -> "storm"
          [] prompt[i] = "storm" -> "Flood"
          [] OTHER -> prompt[i]]

\* the service receives one more request after it has replied: the same
\* prompt again or the prompt about the other category, for the same or
\* another output directory, served by this process or by another process
\* of the service (a second worker, the service restarted); the store and
\* the files written so far stay as they are
Again ==
    /\ pc = "replied"
    /\ earlier = None
    /\ earlier' = RunRecord
    /\ request' \in {r \in Requests :
                        /\ r.prompt \in {request.prompt, OtherCategory(request.prompt)}
                        /\ r.save_report = request.save_report
                        /\ r.dir_exists = request.dir_exists}
    /\ state' = <<>>
    /\ pc' = "begin"
    /\ executed' = <<>>
    /\ calls' = <<>>
    /\ raised' = None
    /\ response' = None
    /\ UNCHANGED store

Next ==
    \/ Begin
    \/ ParseInput
    \/ ValidateInput
    \/ HandleError
    \/ RetrieveData
    \/ AnalyzeStatistics
    \/ GenerateVisualizations
    \/ GenerateForecast
    \/ GenerateReport
    \/ FormatOutput
    \/ Respond

Spec == Init /\ [][Next]_vars

\* the requests whose prompt has at most ShortPromptLen words
ShortInit == Init /\ Len(request.prompt) <= ShortPromptLen

\* analyze_disaster and workflow_app.invoke are synchronous: each runs to
\* completion, one node after the other, so a step that can be taken is
\* taken
FairSpec == ShortInit /\ [][Next]_vars /\ WF_vars(Next)

\* two requests, one after the other
NextOrAgain ==
    \/ Next
    \/ Again

TwoRunSpec == ShortInit /\ [][NextOrAgain]_vars

(***************************************************************************)
(* The parser on prompts that name a term in parentheses                   *)
(***************************************************************************)
\* the words of a prompt, a term of several words standing as one
ParserWords == Words \cup {"Mass movement (wet)", "mass movement (wet)s"}
ParserPrompts == UNION {[1..n -> ParserWords] : n \in 0..MaxPromptLen}

ParserInit ==
    /\ request \in [prompt : ParserPrompts, save_report : {FALSE},
                     output_dir : {"reports"}, dir_exists : {FALSE}]
    /\ store = "rich"
    /\ state = <<>>
    /\ pc = "begin"
    /\ executed = <<>>
    /\ calls = <<>>
    /\ raised = None
    /\ response = None
    /\ earlier = None

\* the run up to the return of parse_input
ParserNext ==
    \/ Begin
    \/ ParseInput

ParserSpec == ParserInit /\ [][ParserNext]_vars

(***************************************************************************)
(* The retrieval agent called with criteria of the caller's choice         *)
(***************************************************************************)
QueryYears == {2011, 2013, 2015}
YearRange(a, b) == [kind |-> "tuple", v |-> <<a, b>>]

\* the arguments of retrieve_data: each criterion given or omitted, the
\* year a single year or a tuple (start_year, end_year)
Criteria ==
    [disaster_type : {None, Str(<<"flood">>), Str(<<"Flood">>), Str(<<"storm">>)},
     country : {None, Str(<<"brazil">>), Str(<<"Mexico">>)},
     year : {None} \cup {IntV(y) : y \in QueryYears}
               \cup {YearRange(r[1], r[2]) :
                        r \in {p \in QueryYears \X QueryYears : p[1] <= p[2]}},
     limit : (0..MaxLimit) \cup {DefaultLimit}]

RetrieveInit ==
    /\ request \in {r \in Requests : r.prompt = <<>> /\ ~r.save_report}
    /\ store \in TableNames
    /\ state \in Criteria
    /\ pc = "retrieve"
    /\ executed = <<>>
    /\ calls = <<>>
    /\ raised = None
    /\ response = None
    /\ earlier = None

\* agent.retrieve_data(disaster_type, country, year, limit) called
\* directly: the DataFrame it returns or the exception it raises is kept
\* in response
Retrieve ==
    /\ pc = "retrieve"
    /\ \E conn \in ConnOutcomes :
         \E got \in {retrieve_data(TableOf(store), state.disaster_type,
                                   state.country, state.year, state.limit,
                                   conn)} :
              /\ response' = got.res
              /\ calls' = calls \o got.log
    /\ pc' = "retrieved"
    /\ UNCHANGED <<request, store, state, executed, raised, earlier>>

RetrieveNext == Retrieve

RetrieveSpec == RetrieveInit /\ [][RetrieveNext]_vars

(***************************************************************************)
(* The forecast agent called with a prompt of the caller's choice          *)
(***************************************************************************)
\* the words of a forecasting prompt: a disaster type and the words that
\* name a metric
ForecastWords ==
    {"flood", "deaths", "injured", "affected", "homeless", "damage",
     "insured", "reconstruction"}
ForecastPrompts == UNION {[1..n -> ForecastWords] : n \in 0..MaxPromptLen}

ForecastInit ==
    /\ request \in [prompt : ForecastPrompts, save_report : {FALSE},
                     output_dir : {"reports"}, dir_exists : {FALSE}]
    /\ store \in TableNames
    /\ state = [prompt |-> Str(request.prompt)]
    /\ pc = "infer_metric"
    /\ executed = <<>>
    /\ calls = <<>>
    /\ raised = None
    /\ response = None
    /\ earlier = None

\* infer_metric(prompt) called directly: the metric is kept in the state
InferMetric ==
    /\ pc = "infer_metric"
    /\ state' = Merge(state, [metric |-> infer_metric(state.prompt.v)])
    /\ pc' = "forecast"
    /\ UNCHANGED <<request, store, executed, calls, raised, response, earlier>>

\* result = generate_forecast(user_prompt): the output dict is kept in
\* response
Forecast ==
    /\ pc = "forecast"
    /\ \E outcome \in ForecastOutcomes :
         \E made \in {generate_forecast(state.prompt.v, TableOf(store), outcome)} :
              /\ response' = made.out
              /\ calls' = calls \o made.log
    /\ pc' = "forecasted"
    /\ UNCHANGED <<request, store, state, executed, raised, earlier>>

ForecastNext ==
    \/ InferMetric
    \/ Forecast

ForecastSpec == ForecastInit /\ [][ForecastNext]_vars

(***************************************************************************)
(* The growth rate of a forecast table of the caller's choice              *)
(***************************************************************************)
\* the columns a forecast can be about that the tables of the model fill
GrowthMetrics ==
    {"TOTAL_AFFECTED", "TOTAL_DAMAGE_000_USD", "TOTAL_DEATHS", "NO_AFFECTED"}

\* an entry of forecast_table: the year and the value under the metric
Entry(year, metric, value) ==
    [k \in {"START_YEAR", metric} |-> IF k = "START_YEAR" THEN year ELSE value]

\* tables of n entries from the year 2000 that go from first to last in
\* span years
GrowthTables ==
    {[i \in 1..n |->
         IF i = 1 THEN Entry(2000, metric, first)
         ELSE IF i = n THEN Entry(2000 + span, metric, last)
         ELSE Entry(2000 + 1, metric, first)] :
        n \in 1..3, metric \in GrowthMetrics, first \in {0, 100},
        last \in {100, 200, 300}, span \in {0, 5, 10}}

GrowthInit ==
    /\ request \in {r \in Requests : r.prompt = <<>> /\ ~r.save_report}
    /\ store = "rich"
    /\ state \in {[forecast_table |-> t] : t \in GrowthTables}
    /\ pc = "calculate_growth_rate"
    /\ executed = <<>>
    /\ calls = <<>>
    /\ raised = None
    /\ response = None
    /\ earlier = None

\* self._calculate_growth_rate(forecast['data']['forecast_table']): the
\* rate is kept in response
CalculateGrowthRate ==
    /\ pc = "calculate_growth_rate"
    /\ response' = IntV(calculate_growth_rate(state.forecast_table))
    /\ pc' = "growth_rate"
    /\ UNCHANGED <<request, store, state, executed, calls, raised, earlier>>

GrowthNext == CalculateGrowthRate

GrowthSpec == GrowthInit /\ [][GrowthNext]_vars

(***************************************************************************)
(* The analyzer on a summary built by hand                                 *)
(***************************************************************************)
\* summaries of the shape of stats_from_retriever, with Python int counts
\* and totals and one sample event per event
Summaries ==
    {[total_events |-> n,
      countries |-> <<"Brazil">>,
      years |-> [min |-> 2000, max |-> 2000 + span],
      disaster_types |-> <<"Flood">>,
      total_deaths |-> deaths,
      total_affected |-> affected,
      total_damage_usd |-> damage * 1000,
      sample_events |-> [i \in 1..n |-> SampleEvent(TableRich[i])]] :
        n \in 0..MaxCount, span \in 0..1, deaths \in 0..MaxCount,
        affected \in 0..MaxCount, damage \in 0..1}

\* the state handed to analyze_statistics holds the summary and no error
EnhanceInit ==
    /\ request \in {r \in Requests : r.prompt = <<>> /\ ~r.save_report}
    /\ store = "rich"
    /\ state \in {[summary_stats |-> Dict(s)] : s \in Summaries}
    /\ pc = "calculate_core_stats"
    /\ executed = <<>>
    /\ calls = <<>>
    /\ raised = None
    /\ response = None
    /\ earlier = None

\* DisasterStatsAnalyzer(stats).calculate_core_stats() called directly: the
\* value it returns or the exception it raises is kept in response
CalculateCoreStats ==
    /\ pc = "calculate_core_stats"
    /\ \E result \in {calculate_core_stats(state.summary_stats.v)} :
          response' = result
    /\ calls' = calls \o <<"DisasterStatsAnalyzer", "calculate_core_stats">>
    /\ pc' = "analyze_statistics"
    /\ UNCHANGED <<request, store, state, executed, raised, earlier>>

EnhanceNext ==
    \/ CalculateCoreStats
    \/ AnalyzeStatistics

EnhanceSpec == EnhanceInit /\ [][EnhanceNext]_vars

(***************************************************************************)
(* Properties                                                              *)
(***************************************************************************)
\* validation_error is set (non-empty)
ValErrSet(st) == Truthy(Get(st, "validation_error"))

\* records, summary, enhancedStats, patterns, forecast, dashboardRef, reportRef
ArtifactKeys ==
    {"raw_data", "summary_stats", "enhanced_stats", "event_patterns",
     "forecast_data", "dashboard_path", "report_path"}
ArtifactsOf(st) == [k \in ArtifactKeys \cap DOMAIN st |-> st[k]]

\* C1: once validation_error is set, no step changes records, summary,
\* enhanced stats, patterns, forecast, dashboard reference or report
\* reference (neither their values nor whether they are present), so that
\* they end with the values they had when validation_error was first set.
C1_ErrorFreezesArtifacts ==
    [][ValErrSet(state) => ArtifactsOf(state') = ArtifactsOf(state)]_vars

\* an error recorded after the dashboard was made, with the report and
\* output stages run since
C1_Witness ==
    /\ pc = "END"
    /\ ValErrSet(state)
    /\ state.validation_error.v[1] = "Forecast generation failed: "
    /\ Truthy(Get(state, "dashboard_path"))
    /\ executed[Len(executed)] = "format_output"

\* C2 (as claimed): when validation_error is already set on entry to
\* analyze_statistics, the node returns the state unchanged in every field.
C2_AnalyzeRelaysError ==
    [][(pc = "analyze_statistics" /\ ValErrSet(state)) => state' = state]_vars

RelayNodes == {"generate_visualizations", "generate_forecast", "generate_report"}

\* C3: when validation_error is set on entry to generate_visualizations,
\* generate_forecast or generate_report, the node returns the state
\* unchanged in every field and calls no collaborator.
C3_LaterStagesRelay ==
    [][(pc \in RelayNodes /\ ValErrSet(state))
          => (state' = state /\ calls' = calls)]_vars

\* an analysis error relayed through all three nodes
C3_Witness ==
    /\ pc = "format_output"
    /\ ValErrSet(state)
    /\ state.validation_error.v[1] = "Statistical analysis failed: "
    /\ Len(executed) = 7

\* C4: the step out of validate_input goes to handle_error exactly when
\* the parsed disaster type or country is missing and to retrieve_data
\* exactly when both are present; retrieve_data is never entered with a
\* missing disaster type or country.
C4_ValidateRouting ==
    [][/\ pc = "validate_input" =>
            /\ pc' = "handle_error"
                  <=> (~Truthy(state.disaster_type) \/ ~Truthy(state.country))
            /\ pc' = "retrieve_data"
                  <=> (Truthy(state.disaster_type) /\ Truthy(state.country))
       /\ pc' = "retrieve_data" =>
            (Truthy(state'.disaster_type) /\ Truthy(state'.country))]_vars

\* a prompt naming a disaster type but no country reached handle_error
C4_Witness ==
    /\ pc = "handle_error"
    /\ Truthy(state.disaster_type)
    /\ ~Truthy(state.country)

\* parsing yielded neither a disaster type nor a country
NeitherParsed(st) ==
    /\ "disaster_type" \in DOMAIN st
    /\ ~Truthy(st.disaster_type)
    /\ ~Truthy(st.country)

ErrorPath == <<"parse_input", "validate_input", "handle_error">>

\* C5: in a run whose prompt yields neither a disaster type nor a country,
\* only parse_input, validate_input and handle_error execute, in that
\* order, the run ends after handle_error, and records, summary, enhanced
\* stats, patterns, forecast, dashboard and report references stay unset.
C5_NeitherEndsAtHandleError ==
    NeitherParsed(state) =>
        /\ Len(executed) <= Len(ErrorPath)
        /\ \A i \in DOMAIN executed : executed[i] = ErrorPath[i]
        /\ pc \in {"validate_input", "handle_error", "END", "replied"}
        /\ pc \in {"END", "replied"} => executed = ErrorPath
        /\ \A k \in ArtifactKeys : Get(state, k) = None

\* such a run after handle_error
C5_Witness ==
    /\ pc = "END"
    /\ NeitherParsed(state)
    /\ executed = ErrorPath

\* both fields parsed and the query ran without a fault and returned no row
ZeroRowsRetrieved ==
    /\ "raw_data" \in DOMAIN state
    /\ Truthy(state.disaster_type)
    /\ Truthy(state.country)
    /\ state.raw_data.kind = "df"
    /\ state.raw_data.rows = <<>>
    /\ "log.error" \notin Range(calls)

\* C6 (as claimed): in a run with a valid pair whose retrieval returns
\* zero rows, calculate_core_stats is never invoked and the final message
\* states that no data matched the criteria.
C6_NoEnhanceOnEmptyResult ==
    ZeroRowsRetrieved =>
        /\ "calculate_core_stats" \notin Range(calls)
        /\ pc = "END" => NoDataMessage[1] \in Range(state.output.v)

\* the series generate_forecast would query for the current state
ForecastSeries ==
    ForecastQuery(TableOf(store), infer_metric(forecast_prompt(state)),
                  extract_filters(forecast_prompt(state)))

\* C7 (as claimed): when the forecast query succeeds with fewer than 5
\* years of data, generate_forecast leaves validation_error unset and
\* forecast_data unset (a warning only).
C7_FewYearsIsOnlyAWarning ==
    [][(/\ pc = "generate_forecast"
        /\ ~ValErrSet(state)
        /\ Len(ForecastSeries) < MinForecastRows
        /\ calls' # calls
        /\ calls'[Len(calls')] = "store.close")
          => (~ValErrSet(state') /\ ~Truthy(Get(state', "forecast_data")))]_vars

DownstreamNodes ==
    {"analyze_statistics", "generate_visualizations", "generate_forecast",
     "generate_report"}

\* C8 (as claimed): when the store is unreachable or the query faults in
\* retrieve_data, validation_error is set when retrieve_data returns and
\* every downstream node relays the state unchanged.
C8_RetrievalFaultShortCircuits ==
    [][/\ (pc = "retrieve_data" /\ "log.error" \in Range(calls'))
            => ValErrSet(state')
       /\ (pc \in DownstreamNodes /\ "log.error" \in Range(calls))
            => state' = state]_vars

\* generate_report ran its own logic and failed
ReportFailed(st) ==
    /\ ValErrSet(st)
    /\ st.validation_error.v[1] \in
          {"Report generation failed: ", "Insufficient data for report generation"}

\* C9: when generate_report fails, the response still carries the
\* dashboard reference generate_visualizations produced and no report
\* reference.
C9_DashboardSurvivesReportFailure ==
    (pc = "replied" /\ response.kind = "AnalysisResponse" /\ ReportFailed(state))
        => /\ Truthy(response.dashboard_path)
           /\ response.dashboard_path = state.dashboard_path
           /\ response.dashboard_path = DashboardFile
           /\ response.report_path = None
           /\ "report_path" \notin DOMAIN state

\* a response after a failed report
C9_Witness ==
    /\ pc = "replied"
    /\ response.kind = "AnalysisResponse"
    /\ ReportFailed(state)
    /\ Truthy(response.dashboard_path)

NewCalls == SubSeq(calls', Len(calls) + 1, Len(calls'))

\* C11 (as claimed): when a call of the LLM raises inside generate_forecast
\* or generate_report, the node completes with validation_error unset and
\* still stores its artifact (forecast_data, report_path).
C11_LlmFaultDegradesToPlaceholder ==
    [][(/\ pc \in {"generate_forecast", "generate_report"}
        /\ "llm.invoke raised" \in Range(NewCalls))
          => /\ ~ValErrSet(state')
             /\ pc = "generate_forecast" => Truthy(Get(state', "forecast_data"))
             /\ pc = "generate_report" => Truthy(Get(state', "report_path"))]_vars

\* C12: a response of the entry point has status "error" exactly when
\* validation_error is set in the final state and "success" otherwise; its
\* message is the final output and its dashboard_path and report_path are
\* those of the final state (None when unset).
C12_ResponseMirrorsFinalState ==
    (pc = "replied" /\ response.kind = "AnalysisResponse")
        => /\ ValErrSet(state) => response.status = Str(<<"error">>)
           /\ ~ValErrSet(state) => response.status = Str(<<"success">>)
           /\ response.message = state.output
           /\ response.dashboard_path = Get(state, "dashboard_path")
           /\ response.report_path = Get(state, "report_path")

\* a success response that carries a report path
C12_Witness ==
    /\ pc = "replied"
    /\ response.kind = "AnalysisResponse"
    /\ response.status = Str(<<"success">>)
    /\ Truthy(response.report_path)
    /\ Truthy(response.dashboard_path)

TerminalNodes == {"handle_error", "format_output"}

\* the last node that ran is a terminal node
EndedInTerminalNode ==
    /\ executed # <<>>
    /\ executed[Len(executed)] \in TerminalNodes

\* C13: every run of the workflow ends, and it ends in handle_error or in
\* format_output; no node runs after a terminal node, so the two terminal
\* nodes never both run.
C13_EndsInOneTerminalNode ==
    /\ (pc = "parse_input") ~> (pc = "replied" /\ EndedInTerminalNode)
    /\ [](pc = "END" => EndedInTerminalNode)
    /\ [](\A i \in DOMAIN executed :
             executed[i] \in TerminalNodes => i = Len(executed))

\* a run that went through all the nodes of the main path to format_output
C13_Witness ==
    /\ pc = "END"
    /\ Len(executed) = 8
    /\ executed[Len(executed)] = "format_output"
    /\ "handle_error" \notin Range(executed)

\* format_output ran on a state without validation_error
EndedInSuccess ==
    /\ pc \in {"END", "replied"}
    /\ executed # <<>>
    /\ executed[Len(executed)] = "format_output"
    /\ ~ValErrSet(state)

\* C14: in the message of a run that ends without validation_error, the
\* year line is present exactly when a year was parsed, the dashboard line
\* exactly when dashboard_path is set, the report line exactly when
\* report_path is set, and no piece of the message is "None" or empty.
C14_UnsetFieldsAreSkipped ==
    EndedInSuccess
        => LET msg == Range(state.output.v)
           IN  /\ "Year: " \in msg <=> Truthy(Get(state, "year"))
               /\ "Dashboard: file://" \in msg <=> Truthy(Get(state, "dashboard_path"))
               /\ "Full Report: file://" \in msg <=> Truthy(Get(state, "report_path"))
               /\ "None" \notin msg
               /\ "" \notin msg

\* a successful run of a prompt without a year
C14_Witness ==
    /\ EndedInSuccess
    /\ ~Truthy(Get(state, "year"))
    /\ "Year: " \notin Range(state.output.v)
    /\ "Dashboard: file://" \in Range(state.output.v)

\* C16 (as claimed): when the connection or the query fails, retrieve_data
\* logs the fault and returns an empty DataFrame; its caller, the node
\* retrieve_data, receives no exception and stores the empty result.
C16_RetrieveNeverRaises ==
    [][(pc = "retrieve_data" /\ "log.error" \in Range(NewCalls))
          => /\ ~ValErrSet(state')
             /\ Get(state', "raw_data") = DataFrame(<<>>)]_vars

\* the records retrieve_data hands to get_summary_stats for the parsed
\* criteria when the connection works
Retrieved ==
    DataFrame(QueryRows(TableOf(store), state.disaster_type, state.country,
                        state.year, DefaultLimit))

\* C17 (as claimed): get_summary_stats returns the message-only sentinel
\* exactly when the records are empty, and for every non-empty set of
\* records it returns the count, the earliest and latest year, the sums
\* and a sample of at most the first five records.
C17_SummaryOfEveryRecordSet ==
    pc = "retrieve_data"
        => LET rows == Retrieved.rows
               stats == get_summary_stats(Retrieved)
               years == NotNaN(Column(rows, "START_YEAR"))
           IN  /\ stats.ok
               /\ rows = <<>> <=> stats.v = Dict([message |-> Str(NoDataMessage)])
               /\ rows # <<>>
                     => /\ stats.v.v.total_events = Len(rows)
                        /\ stats.v.v.years.min \in years
                        /\ stats.v.v.years.max \in years
                        /\ \A y \in years : /\ stats.v.v.years.min <= y
                                             /\ y <= stats.v.v.years.max
                        /\ stats.v.v.total_deaths
                              = SumSkipNaN(Column(rows, "TOTAL_DEATHS"))
                        /\ stats.v.v.total_affected
                              = SumSkipNaN(Column(rows, "NO_AFFECTED"))
                        /\ Len(stats.v.v.sample_events) <= HeadRows
                        /\ \A i \in DOMAIN stats.v.v.sample_events :
                              stats.v.v.sample_events[i] = SampleEvent(rows[i])

\* generate_forecast has just stored its forecast
ForecastStored ==
    /\ pc = "generate_report"
    /\ Truthy(Get(state, "forecast_data"))

\* the years of the store that have a value of the metric in a row that
\* passes the filters
YearsWithData(metric, filters) ==
    LET table == TableOf(store)
    IN  {table[i].START_YEAR :
            i \in {j \in DOMAIN table :
                      /\ table[j].START_YEAR # NaN
                      /\ table[j][metric] # NaN
                      /\ \A f \in DOMAIN filters :
                            table[j][filters[f].column] = filters[f].value}}

\* C20: a forecast is made from at least five years of data; its
\* forecast_years are the five years after the latest year of the
\* history, and its forecast_table is the history, one row a year in
\* ascending order of year, followed by exactly one projected row for
\* each of those five years.
C20_FiveYearsAfterTheHistory ==
    ForecastStored
        => LET data == state.forecast_data.v.data.v
               rows == data.forecast_table
               years == YearsWithData(data.metric, data.filters)
               n == Cardinality(years)
               latest == SetMax(years)
           IN  /\ n >= MinForecastRows
               /\ data.forecast_years = [k \in 1..ForecastHorizon |-> latest + k]
               /\ Len(rows) = n + ForecastHorizon
               /\ {rows[i].START_YEAR : i \in 1..n} = years
               /\ \A i \in 1..(n - 1) : rows[i].START_YEAR < rows[i + 1].START_YEAR
               /\ \A k \in 1..ForecastHorizon :
                     rows[n + k].START_YEAR = data.forecast_years[k]

\* the forecast for the six years 2010..2015 of floods: 2016..2020
C20_Witness ==
    /\ ForecastStored
    /\ Len(state.forecast_data.v.data.v.forecast_table) = 11
    /\ state.forecast_data.v.data.v.forecast_years
          = <<2016, 2017, 2018, 2019, 2020>>

\* two runs have replied and both went through parse_input
TwoRunsParsed ==
    /\ earlier # None
    /\ pc = "replied"
    /\ "parse_input" \in Range(earlier.executed)
    /\ "parse_input" \in Range(executed)

\* C15 (as claimed): two runs of the same prompt against the unchanged
\* store parse the same criteria and, where the store answered both and
\* both computed them, have the same summary statistics and the same
\* event patterns with their clusters, for every prompt, also one that
\* names two categories.
C15_SamePromptSameResult ==
    (TwoRunsParsed /\ request.prompt = earlier.request.prompt)
        => /\ Get(state, "disaster_type") = earlier.disaster_type
           /\ Get(state, "country") = earlier.country
           /\ Get(state, "year") = earlier.year
           /\ (StoreAnswered /\ earlier.answered)
                 => /\ (/\ Truthy(Get(state, "summary_stats"))
                         /\ Truthy(earlier.summary_stats))
                          => Get(state, "summary_stats") = earlier.summary_stats
                    /\ (/\ Truthy(Get(state, "event_patterns"))
                         /\ Truthy(earlier.event_patterns))
                          => Get(state, "event_patterns") = earlier.event_patterns

\* C18 (as claimed): two runs whose (disaster_type, country) differ write
\* no artifact file at the same path; the files of the first run are
\* still in place when the second run writes its own.
C18_DifferentCriteriaDifferentPaths ==
    (/\ TwoRunsParsed
     /\ <<Get(state, "disaster_type"), Get(state, "country")>>
            # <<earlier.disaster_type, earlier.country>>)
        => WrittenPaths(state) \cap earlier.paths = {}

\* C19 (as claimed): two requests with different output directories write
\* disjoint sets of paths, and each of them writes only under its own
\* output directory.
C19_OwnOutputDirectory ==
    (/\ earlier # None
     /\ pc = "replied"
     /\ request.output_dir # earlier.request.output_dir)
        => /\ WrittenPaths(state) \cap earlier.paths = {}
           /\ \A path \in WrittenPaths(state) : path[1] = request.output_dir
           /\ \A path \in earlier.paths : path[1] = earlier.request.output_dir

\* the nodes of a run that passes validation, in the order of the edges
MainPath ==
    <<"parse_input", "validate_input", "retrieve_data", "analyze_statistics",
      "generate_visualizations", "generate_forecast", "generate_report",
      "format_output">>

\* validate_input found both a disaster type and a country
PassedValidation ==
    /\ Len(executed) >= 2
    /\ Truthy(Get(state, "disaster_type"))
    /\ Truthy(Get(state, "country"))

\* C21: a run that passes validation executes retrieve_data,
\* analyze_statistics, generate_visualizations, generate_forecast,
\* generate_report and format_output once each, in that order, one node
\* after the other, whether or not a node records an error, and never
\* executes handle_error.
C21_ValidRunExecutesEveryStageOnce ==
    /\ [](PassedValidation
            => /\ executed = SubSeq(MainPath, 1, Len(executed))
               /\ pc \in {"END", "replied"} => executed = MainPath
               /\ pc \notin {"END", "replied"} => pc = MainPath[Len(executed) + 1])
    /\ (pc = "retrieve_data") ~> (pc = "replied" /\ executed = MainPath)

\* a run that passed validation, recorded an error on the way and went on
\* to format_output
C21_Witness ==
    /\ pc = "END"
    /\ PassedValidation
    /\ executed = MainPath
    /\ ValErrSet(state)
    /\ ~Truthy(Get(state, "dashboard_path"))

\* C22: when a run ends in format_output with validation_error unset,
\* raw_data, summary_stats, enhanced_stats, event_patterns, forecast_data,
\* dashboard_path and report_path are all set.
C22_SuccessHasEveryArtifact ==
    EndedInSuccess => \A k \in ArtifactKeys : Truthy(Get(state, k))

\* a successful run for a prompt with a year
C22_Witness ==
    /\ EndedInSuccess
    /\ pc = "END"
    /\ Truthy(Get(state, "year"))
    /\ Truthy(Get(state, "forecast_data"))
    /\ Truthy(Get(state, "report_path"))

\* the rows of the store the forecast query sums into its series: a year,
\* a value of the metric, and every filter passed
RowsInForecast(metric, filters) ==
    LET table == TableOf(store)
    IN  {table[j] :
            j \in {i \in DOMAIN table :
                      /\ table[i].START_YEAR # NaN
                      /\ table[i][metric] # NaN
                      /\ \A f \in DOMAIN filters :
                            table[i][filters[f].column] = filters[f].value}}

\* C23 (as claimed): the series of a stored forecast is made only of rows
\* whose disaster type and country are the parsed disaster type and
\* country of the run, the criteria retrieve_data applied.
C23_ForecastUsesParsedCriteria ==
    ForecastStored
        => LET data == state.forecast_data.v.data.v
           IN  \A row \in RowsInForecast(data.metric, data.filters) :
                   RowMatches(row, state.disaster_type, state.country, None)

\* C24 (as claimed): generate_report leaves the forecast held by the state
\* as generate_forecast stored it, every row of its forecast table
\* included.
C24_ReportLeavesForecastAlone ==
    [][pc = "generate_report"
          => Get(state', "forecast_data") = Get(state, "forecast_data")]_vars

\* the sample events of the summary held by the state
SampleEvents ==
    IF Truthy(Get(state, "summary_stats"))
          /\ "sample_events" \in DOMAIN state.summary_stats.v
    THEN state.summary_stats.v.sample_events
    ELSE <<>>

\* how many of them have coordinates
LocatedSamples ==
    Cardinality({i \in DOMAIN SampleEvents :
                    extract_coords(SampleEvents[i].LOCATION) # NoCoords})

InsufficientData == Dict([error |-> Str(<<"Insufficient geospatial data">>)])

\* C25 (as claimed): when analyze_statistics runs on a summary of which
\* fewer than 3 sample events have coordinates, the clustering result is
\* the insufficient-data marker, validation_error stays unset and the run
\* goes on to generate_visualizations.
C25_FewCoordinatesIsAWarning ==
    [][(/\ pc = "analyze_statistics"
        /\ Truthy(Get(state, "summary_stats"))
        /\ ~ValErrSet(state)
        /\ LocatedSamples < 3)
          => /\ ~ValErrSet(state')
             /\ Truthy(Get(state', "event_patterns"))
             /\ state'.event_patterns.v.geospatial_clusters = InsufficientData
             /\ pc' = "generate_visualizations"]_vars

\* C26 (as claimed): when at least 3 sample events have coordinates,
\* analyze_statistics gets a list of clusters and records no error,
\* however many other sample events have no location.
C26_ClustersDespiteMissingLocations ==
    [][(/\ pc = "analyze_statistics"
        /\ ~ValErrSet(state)
        /\ LocatedSamples >= 3)
          => /\ ~ValErrSet(state')
             /\ Truthy(Get(state', "event_patterns"))
             /\ "detected_clusters"
                   \in DOMAIN state'.event_patterns.v.geospatial_clusters.v]_vars

\* the coordinates of the sample events that have a location, in row order
SampleCoords ==
    LET located(ev) == extract_coords(ev.LOCATION) # NoCoords
        kept == SelectSeq(SampleEvents, located)
    IN  [i \in DOMAIN kept |-> extract_coords(kept[i].LOCATION)]

\* the cluster list of a state, the empty list when there is none
ClusterList(st) ==
    IF /\ Truthy(Get(st, "event_patterns"))
       /\ "detected_clusters" \in DOMAIN st.event_patterns.v.geospatial_clusters.v
    THEN st.event_patterns.v.geospatial_clusters.v.detected_clusters
    ELSE <<>>

KmFromCentroid(centroid, n, p) ==
    LET dlat == n * p.lat - centroid.lat.num * (n \div centroid.lat.den)
        dlon == n * p.lon - centroid.lon.num * (n \div centroid.lon.den)
    IN  (KmPerDegree * ISqrt(dlat * dlat + dlon * dlon)) \div (100 * n)

\* the summary holds exactly 3 sample events, all located and each within
\* km of the others
ThreeClosePoints(km) ==
    /\ Len(SampleEvents) = 3
    /\ Len(SampleCoords) = 3
    /\ \A i, j \in 1..3 : Neighbours(SampleCoords[i], SampleCoords[j], km)

HasValidYear(prompt) ==
    \E i \in DOMAIN prompt :
        prompt[i] \in YearWords /\ YearOf(prompt[i]) \in VALID_YEARS

\* C30: after parse_input the year is set exactly when the prompt holds a
\* standalone 4-digit year of 2000..2025, and it is then such a year of the
\* prompt; an out-of-range year elsewhere in the prompt, before or after
\* it, changes nothing.
C30_YearFoundWhenInRange ==
    pc = "validate_input"
      => /\ Truthy(Get(state, "year")) <=> HasValidYear(request.prompt)
         /\ Truthy(Get(state, "year"))
               => \E i \in DOMAIN request.prompt :
                     /\ request.prompt[i] \in YearWords
                     /\ state.year = IntV(YearOf(request.prompt[i]))
                     /\ state.year.v \in VALID_YEARS

\* the summary of the state counts no event
ZeroEvents(st) ==
    /\ Truthy(Get(st, "summary_stats"))
    /\ "total_events" \in DOMAIN st.summary_stats.v
    /\ st.summary_stats.v.total_events = 0

\* C29: on a summary whose total_events is 0, calculate_core_stats raises
\* "division by zero" and returns nothing, no average of NaN and none of 0;
\* analyze_statistics on such a summary catches the exception, records it
\* in validation_error, leaves enhanced_stats unset and lets nothing
\* escape.
C29_ZeroEventsFailsExplicitly ==
    [][/\ (pc = "calculate_core_stats" /\ ZeroEvents(state))
            => response' = Raise(<<"division by zero">>)
       /\ (pc = "analyze_statistics" /\ ZeroEvents(state))
            => /\ Get(state', "validation_error")
                    = Str(<<"Statistical analysis failed: ", "division by zero">>)
               /\ ~Truthy(Get(state', "enhanced_stats"))
               /\ raised' = None
               /\ pc' = "generate_visualizations"]_vars

\* both calls were made on a summary of no event
C29_Witness ==
    /\ pc = "generate_visualizations"
    /\ ZeroEvents(state)
    /\ response = Raise(<<"division by zero">>)
    /\ ValErrSet(state)
    /\ "enhanced_stats" \notin DOMAIN state

\* the keys written by parse_input and by the caller
InputKeys == {"prompt", "disaster_type", "country", "year"}

\* C40: no node after parse_input changes prompt, disaster_type, country or
\* year, and once parse_input ran the state holds the prompt of the
\* request together with one of the results of parsing it.
C40_ParsedInputIsFrozen ==
    /\ [][pc \notin {"begin", "parse_input"}
            => \A k \in InputKeys : Get(state', k) = Get(state, k)]_vars
    /\ [](pc \notin {"begin", "parse_input"} /\ state # <<>>
            => /\ InputKeys \subseteq DOMAIN state
               /\ state.prompt = Str(request.prompt)
               /\ <<state.disaster_type, state.country, state.year>>
                     \in parse_disaster_prompt(request.prompt))

\* a completed run whose prompt gave all three fields
C40_Witness ==
    /\ pc = "replied"
    /\ EndedInSuccess
    /\ state.prompt = Str(request.prompt)
    /\ Truthy(state.disaster_type)
    /\ Truthy(state.country)
    /\ Truthy(state.year)

\* the terms of a vocabulary that stand in the prompt as whole words
Occurring(vocab, prompt) ==
    {t \in vocab : \E i \in DOMAIN prompt : Lower(prompt[i]) = t}

\* the field of the parsed state is the one term of the vocabulary that
\* stands in the prompt, and is unset or a term standing in the prompt
\* otherwise
ParsedAsWritten(field, vocab) ==
    LET terms == Occurring(vocab, request.prompt)
    IN  /\ Cardinality(terms) = 1 => \E t \in terms : field = Str(<<t>>)
        /\ Truthy(field) => \E t \in terms : field = Str(<<t>>)

\* C31: after parse_input, a vocabulary term that stands in the prompt as a
\* whole word, alone of its kind, is the parsed disaster_type (country),
\* terms with parentheses included; and the parsed disaster_type (country)
\* is always a vocabulary term standing in the prompt as a whole word.
C31_TermsFoundAsWholeWords ==
    pc = "validate_input"
      => /\ ParsedAsWritten(state.disaster_type, DISASTER_TYPES)
         /\ ParsedAsWritten(state.country, COUNTRIES)

\* the row satisfies every criterion that was supplied
Satisfies(row, criteria) ==
    /\ criteria.disaster_type # None
          => Lower(row.DISASTER_TYPE) = Lower(criteria.disaster_type.v[1])
    /\ criteria.country # None
          => Lower(row.COUNTRY) = Lower(criteria.country.v[1])
    /\ criteria.year # None /\ criteria.year.kind = "int"
          => row.START_YEAR = criteria.year.v
    /\ criteria.year # None /\ criteria.year.kind = "tuple"
          => /\ row.START_YEAR # NaN
             /\ criteria.year.v[1] <= row.START_YEAR
             /\ row.START_YEAR <= criteria.year.v[2]

\* the number of rows of the table of the store that satisfy the criteria
Satisfying(criteria) ==
    Cardinality({i \in DOMAIN TableOf(store) :
                    Satisfies(TableOf(store)[i], criteria)})

\* the data store answered the query
Answered == Len(calls) >= 2 /\ calls[2] = "store.execute" /\ "log.error" \notin Range(calls)

\* C32: a frame returned by retrieve_data holds only rows that satisfy
\* every supplied criterion and never more than limit rows; when the data
\* store answered it holds as many rows as satisfy the supplied criteria,
\* up to limit, so an omitted criterion excludes no row.
C32_RetrieveHonoursCriteriaAndLimit ==
    (pc = "retrieved" /\ response.ok)
      => /\ \A i \in DOMAIN response.v.rows :
               Satisfies(response.v.rows[i], state)
         /\ Len(response.v.rows) <= state.limit
         /\ Answered
               => Len(response.v.rows)
                    = IF Satisfying(state) < state.limit
                      THEN Satisfying(state) ELSE state.limit

\* a range of years and a country given, the category omitted: more rows
\* satisfy the criteria than the limit lets through
C32_Witness ==
    /\ pc = "retrieved"
    /\ response.ok
    /\ state.disaster_type = None
    /\ state.country # None
    /\ state.year # None /\ state.year.kind = "tuple"
    /\ Len(response.v.rows) = state.limit
    /\ state.limit = MaxLimit - 1
    /\ Satisfying(state) > state.limit

\* the history of a forecast table: the entries before the projected ones,
\* as the series (START_YEAR, value) the model was fitted on
HistoryOf(table) ==
    [i \in 1..(Len(table) - ForecastHorizon) |->
        [START_YEAR |-> table[i].START_YEAR,
         value |-> table[i].value.num \div table[i].value.den]]

\* the series has 6 consecutive years and lies on y = 100 + 50x, x = 0..5
OnTheLine(series) ==
    /\ Len(series) = 6
    /\ \A i \in 1..6 :
          /\ series[i].START_YEAR = series[1].START_YEAR + (i - 1)
          /\ series[i].value = 100 + 50 * (i - 1)

\* C38: when the history of a stored forecast is a 6-year series lying on
\* the line y = 100 + 50x (x = 0..5), the fitted slope is 50 and the 5
\* projected values are 100 + 50x for x = 6..10.
C38_ProjectionContinuesTheLine ==
    (ForecastStored
       /\ OnTheLine(HistoryOf(state.forecast_data.v.data.v.forecast_table)))
      => LET table == state.forecast_data.v.data.v.forecast_table
         IN  /\ Slope(HistoryOf(table)) = Ratio(50, 1)
             /\ Len(table) = 11
             /\ \A x \in 6..10 :
                   /\ table[x + 1].START_YEAR = table[1].START_YEAR + x
                   /\ table[x + 1].value = Ratio(100 + 50 * x, 1)

\* the floods of Brazil in the store "rich" affected 100, 150, ..., 350
\* people in 2010..2015; the projection for 2020 is 600
C38_Witness ==
    /\ ForecastStored
    /\ store = "rich"
    /\ OnTheLine(HistoryOf(state.forecast_data.v.data.v.forecast_table))
    /\ state.forecast_data.v.data.v.forecast_table[11]
          = [START_YEAR |-> 2020, value |-> Ratio(600, 1)]

\* the number of distinct years of the year-aggregated series of a prompt
SeriesYears(prompt) ==
    Cardinality(YearsWithData(infer_metric(prompt), extract_filters(prompt)))

\* C33: when generate_forecast got its series from the data store and the
\* series has fewer than 5 years, the result has status "warning" and not
\* "error", its data is None, its charts and its analysis are empty, and
\* no text was asked of the LLM.
C33_FewYearsIsAWarning ==
    (/\ pc = "forecasted"
     /\ "store.close" \in Range(calls)
     /\ SeriesYears(request.prompt) < 5)
      => /\ response.v.status = Str(<<"warning">>)
         /\ response.v.status # Str(<<"error">>)
         /\ response.v.data = None
         /\ DOMAIN response.v.charts = {}
         /\ DOMAIN response.v.analysis = {}
         /\ "llm.invoke" \notin Range(calls)

\* a forecast of the floods of the store "sparse", which has one year of
\* them
C33_Witness ==
    /\ pc = "forecasted"
    /\ store = "sparse"
    /\ request.prompt = <<"flood">>
    /\ SeriesYears(request.prompt) = 1
    /\ response.v.status = Str(<<"warning">>)
    /\ response.v.data = None

\* the metrics in the order their keywords are tested
MetricOrder ==
    << [needs |-> {"death"}, metric |-> "TOTAL_DEATHS"],
       [needs |-> {"injured"}, metric |-> "NO_INJURED"],
       [needs |-> {"affected"}, metric |-> "NO_AFFECTED"],
       [needs |-> {"homeless"}, metric |-> "NO_HOMELESS"],
       [needs |-> {"damage", "insured"}, metric |-> "INSURED_DAMAGE_000_USD"],
       [needs |-> {"damage", "reconstruction"},
        metric |-> "RECONSTRUCTION_COSTS_000_USD"],
       [needs |-> {"damage"}, metric |-> "TOTAL_DAMAGE_000_USD"] >>

\* the rules of MetricOrder whose keywords all occur in the prompt
Applicable(prompt) ==
    {i \in DOMAIN MetricOrder :
        \A kw \in MetricOrder[i].needs : Contains(prompt, kw)}

\* C37: the metric inferred from a prompt is the metric of the first rule,
\* in the order deaths, injured, affected, homeless, insured damage,
\* reconstruction cost, total damage, whose keywords occur in the prompt,
\* and TOTAL_AFFECTED when no rule applies.
C37_FirstMetricWins ==
    pc \in {"forecast", "forecasted"}
      => LET rules == Applicable(request.prompt)
         IN  IF rules = {}
             THEN state.metric = "TOTAL_AFFECTED"
             ELSE \E i \in rules :
                     /\ \A j \in rules : i <= j
                     /\ state.metric = MetricOrder[i].metric

\* "insured" and "damage" occur together with a keyword tested later
C37_Witness ==
    /\ pc = "forecasted"
    /\ request.prompt = <<"damage", "reconstruction", "insured">>
    /\ state.metric = "INSURED_DAMAGE_000_USD"

\* the value of an entry of a forecast table
ValueOf(entry) == entry[CHOOSE k \in DOMAIN entry : k # "START_YEAR"]

\* the table goes from 100 in its first year to 200 ten years later
DoublesInTenYears(table) ==
    /\ Len(table) >= 2
    /\ ValueOf(table[1]) = 100
    /\ ValueOf(table[Len(table)]) = 200
    /\ table[Len(table)].START_YEAR = table[1].START_YEAR + 10

ClosesWhatItOpened(log) ==
    \A i \in DOMAIN log :
        log[i] = "store.execute"
          => \E j \in DOMAIN log : j > i /\ log[j] = "store.close"

\* C34: a node that opened a connection to the data store (connect()
\* returned and the query was sent on it) calls close() on it before it
\* returns, also when the query raised.
C34_ConnectionsAreClosed ==
    [][(pc \in {"retrieve_data", "generate_forecast"})
         => ClosesWhatItOpened(NewCalls)]_vars

\* what generate_report requires of the state
RequiredData ==
    {"disaster_type", "country", "summary_stats", "enhanced_stats",
     "event_patterns"}

\* C35: whenever generate_report is entered with validation_error unset,
\* disaster_type, country, summary_stats, enhanced_stats and event_patterns
\* are all present and non-empty, and no run ever records "Insufficient
\* data for report generation".
C35_ReportAlwaysHasItsData ==
    /\ (pc = "generate_report" /\ ~ValErrSet(state))
          => \A k \in RequiredData : Truthy(Get(state, k))
    /\ Get(state, "validation_error")
          # Str(<<"Insufficient data for report generation">>)

\* generate_report is entered without an error and with its data
C35_Witness ==
    /\ pc = "generate_report"
    /\ ~ValErrSet(state)
    /\ \A k \in RequiredData : Truthy(Get(state, k))
    /\ "error" \notin DOMAIN state.enhanced_stats.v

\* the location tokens of the sample events: the parts of each location
\* between commas, stripped, in row order
SampleTokens == Explode(Column(SampleEvents, "LOCATION"))

\* the token a is more frequent among the sample events than the token b,
\* or as frequent and seen first
RanksBefore(a, b) ==
    LET first(t) == CHOOSE i \in DOMAIN SampleTokens :
                       /\ SampleTokens[i] = t
                       /\ \A j \in 1..(i - 1) : SampleTokens[j] # t
    IN  \/ Count(SampleTokens, a) > Count(SampleTokens, b)
        \/ /\ Count(SampleTokens, a) = Count(SampleTokens, b)
           /\ first(a) < first(b)

====
